---- MODULE Spec2Model ----
(***************************************************************************)
(* TadqeeqAI: the hybrid retrieval and query-routing core of backend.py    *)
(* (TadqeeqRAG, ChatHistory, API) together with the part of the chat UI    *)
(* (ui.py) that decides when API.query is called.                          *)
(*                                                                         *)
(* Strings are tuples of Unicode code points, so the substring tests, the  *)
(* character counts and the tokenizer are computed as the code computes    *)
(* them.                                                                   *)
(***************************************************************************)
EXTENDS Integers, Sequences, FiniteSets, TLC

(***************************************************************************)
(* Generic helpers for strings and sequences                               *)
(***************************************************************************)

\* s[a..b] as Python's s[a-1:b]
Slice(s, a, b) == [i \in 1..(b - a + 1) |-> s[a + i - 1]]

\* Python "sub in s"
Contains(s, sub) ==
  \E i \in 0..(Len(s) - Len(sub)) : \A j \in 1..Len(sub) : s[i + j] = sub[j]

\* Python "any(kw in s for kw in table)"
AnyIn(table, s) == \E i \in 1..Len(table) : Contains(s, table[i])

\* Python s[-n:] for a list
LastN(s, n) == IF Len(s) <= n THEN s ELSE Slice(s, Len(s) - n + 1, Len(s))

\* Python s[:n]
FirstN(s, n) == IF Len(s) <= n THEN s ELSE Slice(s, 1, n)

\* str.lower() on one character: ASCII, Latin-1 and U+0178, the upper-case
\* letters that occur in the keyword tables
LowerChar(c) ==
  IF c \in 65..90 \/ (c \in 192..222 /\ c # 215) THEN c + 32
  ELSE IF c = 376 THEN 255
  ELSE c

\* str.lower()
Lower(s) == [i \in 1..Len(s) |-> LowerChar(s[i])]

\* str.isspace() on one character
IsSpace(c) == c \in (9..13) \cup (28..32) \cup {133, 160}

\* str.strip()
Strip(s) ==
  LET nons == {i \in 1..Len(s) : ~IsSpace(s[i])}
  IN  IF nons = {} THEN <<>>
      ELSE Slice(s, CHOOSE i \in nons : \A j \in nons : i <= j,
                    CHOOSE i \in nons : \A j \in nons : j <= i)

\* len(s.split()): the number of maximal runs of non-whitespace
WordCount(s) ==
  Cardinality({i \in 1..Len(s) :
                 ~IsSpace(s[i]) /\ (i = 1 \/ IsSpace(s[i - 1]))})

\* the character class of the tokenizer's alternatives in bm25_search:
\* [U+0600-U+06FF]+ | [a-zA-Z]+ | \d+ (ASCII digits; the Arabic-Indic digits
\* are inside the Arabic block)
TokClass(c) ==
  IF c \in 1536..1791 THEN "ar"
  ELSE IF c \in (65..90) \cup (97..122) THEN "lat"
  ELSE IF c \in 48..57 THEN "dig"
  ELSE "none"

\* re.findall(r'[U+0600-U+06FF]+|[a-zA-Z]+|\d+', s): the maximal runs of one
\* class, left to right
FindTokens(s) ==
  LET starts == {i \in 1..Len(s) :
                   /\ TokClass(s[i]) # "none"
                   /\ (i = 1 \/ TokClass(s[i - 1]) # TokClass(s[i]))}
      start(k) == CHOOSE i \in starts : Cardinality({j \in starts : j < i}) = k - 1
      stop(i) == CHOOSE e \in i..Len(s) :
                   /\ \A j \in i..e : TokClass(s[j]) = TokClass(s[i])
                   /\ (e = Len(s) \/ TokClass(s[e + 1]) # TokClass(s[i]))
  IN  [k \in 1..Cardinality(starts) |-> Slice(s, start(k), stop(start(k)))]

Tokenize(query) == FindTokens(Lower(query))

(***************************************************************************)
(* The keyword tables of TadqeeqRAG                                        *)
(***************************************************************************)

\* out_of_domain, backend.py:882-882, in table order; a string is the tuple of its
\* Unicode code points. The literals are:
\*   "weather"
\*   "recipe"
\*   "cook"
\*   "movie"
\*   "song"
\*   "music"
\*   "game"
\*   "sport"
\*   "football"
\*   "soccer"
\*   "basketball"
\*   "joke"
\*   "story"
\*   "poem"
\*   "write me"
\*   "create a"
\*   "translate"
\*   "what is the capital"
\*   "who is the president"
\*   "how to code"
\*   "python"
\*   "javascript"
\*   "programming"
\*   "health"
\*   "medical"
\*   "doctor"
\*   "disease"
\*   "travel"
\*   "hotel"
\*   "flight"
\*   "vacation"
\*   "\u00FF\u00DF\u0178\u00D1\u00FF\u2211\u0178\u00C7\u00FF\u2265"
\*   "\u0178\u00E0\u00FF\u00B5\u0178\u00C5\u00FF\u00A9"
\*   "\u00FF\u2211\u00FF\u00AE\u00FF\u00C6"
\*   "\u0178\u00C5\u0178\u00E4\u0178\u00D1\u0178\u00D6"
\*   "\u00FF\u00A3\u00FF\u222B\u0178\u00DC\u0178\u00E4\u00FF\u00A9"
\*   "\u0178\u00D6\u0178\u00E0\u00FF\u2265\u0178\u00E4\u0178\u00C7\u0178\u00E2"
\*   "\u0178\u00D1\u00FF\u03C0\u00FF\u00AE\u00FF\u00A9"
\*   "\u00FF\u00B1\u0178\u00E4\u00FF\u00DF\u00FF\u2202\u00FF\u00A9"
\*   "\u0178\u00C9\u00FF\u00B1\u00FF\u00A9 \u00FF\u00DF\u0178\u00D1\u0178\u00C7\u00FF\u00D8\u0178\u00D6"
\*   "\u0178\u00DC\u0178\u00C9\u00FF\u2122\u00FF\u00A9"
\*   "\u0178\u00C7\u00FF\u00B5\u00FF\u00A9"
\*   "\u0178\u00C7\u00FF\u00B5\u0178\u00E4\u00FF\u00D8\u00FF\u00A9"
\*   "\u00FF\u2122\u00FF\u00B1\u00FF\u00A8\u0178\u00D6"
\*   "\u00FF\u03C0\u00FF\u00DF\u00FF\u00B5\u0178\u00D6\u00FF\u00A9"
\*   "\u00FF\u00B1\u00FF\u00B6\u0178\u00E4\u00FF\u2265"
\*   "\u00FF\u00AE\u00FF\u00B1\u0178\u00D6\u00FF\u00A8\u00FF\u00A9"
\*   "\u00FF\u00B5\u00FF\u2260\u00FF\u00A9"
\*   "\u00FF\u2211\u00FF\u00AE\u0178\u00E4\u00FF\u00AE"
\*   "\u00FF\u2265\u0178\u00C5\u00FF\u00B1"
out_of_domain ==
  <<
     <<119,101,97,116,104,101,114>>,
     <<114,101,99,105,112,101>>,
     <<99,111,111,107>>,
     <<109,111,118,105,101>>,
     <<115,111,110,103>>,
     <<109,117,115,105,99>>,
     <<103,97,109,101>>,
     <<115,112,111,114,116>>,
     <<102,111,111,116,98,97,108,108>>,
     <<115,111,99,99,101,114>>,
     <<98,97,115,107,101,116,98,97,108,108>>,
     <<106,111,107,101>>,
     <<115,116,111,114,121>>,
     <<112,111,101,109>>,
     <<119,114,105,116,101,32,109,101>>,
     <<99,114,101,97,116,101,32,97>>,
     <<116,114,97,110,115,108,97,116,101>>,
     <<119,104,97,116,32,105,115,32,116,104,101,32,99,97,112,105,116,97,108>>,
     <<119,104,111,32,105,115,32,116,104,101,32,112,114,101,115,105,100,101,110,116>>,
     <<104,111,119,32,116,111,32,99,111,100,101>>,
     <<112,121,116,104,111,110>>,
     <<106,97,118,97,115,99,114,105,112,116>>,
     <<112,114,111,103,114,97,109,109,105,110,103>>,
     <<104,101,97,108,116,104>>,
     <<109,101,100,105,99,97,108>>,
     <<100,111,99,116,111,114>>,
     <<100,105,115,101,97,115,101>>,
     <<116,114,97,118,101,108>>,
     <<104,111,116,101,108>>,
     <<102,108,105,103,104,116>>,
     <<118,97,99,97,116,105,111,110>>,
     <<255,223,376,209,255,8721,376,199,255,8805>>,
     <<376,224,255,181,376,197,255,169>>,
     <<255,8721,255,174,255,198>>,
     <<376,197,376,228,376,209,376,214>>,
     <<255,163,255,8747,376,220,376,228,255,169>>,
     <<376,214,376,224,255,8805,376,228,376,199,376,226>>,
     <<376,209,255,960,255,174,255,169>>,
     <<255,177,376,228,255,223,255,8706,255,169>>,
     <<376,201,255,177,255,169,32,255,223,376,209,376,199,255,216,376,214>>,
     <<376,220,376,201,255,8482,255,169>>,
     <<376,199,255,181,255,169>>,
     <<376,199,255,181,376,228,255,216,255,169>>,
     <<255,8482,255,177,255,168,376,214>>,
     <<255,960,255,223,255,181,376,214,255,169>>,
     <<255,177,255,182,376,228,255,8805>>,
     <<255,174,255,177,376,214,255,168,255,169>>,
     <<255,181,255,8800,255,169>>,
     <<255,8721,255,174,376,228,255,174>>,
     <<255,8805,376,197,255,177>>
  >>

\* follow_up_en, backend.py:870-870, in table order; a string is the tuple of its
\* Unicode code points. The literals are:
\*   "yes"
\*   "yeah"
\*   "sure"
\*   "please"
\*   "ok"
\*   "okay"
\*   "simplify"
\*   "explain"
\*   "example"
\*   "examples"
\*   "scenario"
\*   "more details"
\*   "elaborate"
\*   "clarify"
\*   "what do you mean"
\*   "can you explain"
\*   "help me understand"
\*   "break it down"
\*   "in simple terms"
\*   "simpler"
\*   "easier"
follow_up_en ==
  <<
     <<121,101,115>>,
     <<121,101,97,104>>,
     <<115,117,114,101>>,
     <<112,108,101,97,115,101>>,
     <<111,107>>,
     <<111,107,97,121>>,
     <<115,105,109,112,108,105,102,121>>,
     <<101,120,112,108,97,105,110>>,
     <<101,120,97,109,112,108,101>>,
     <<101,120,97,109,112,108,101,115>>,
     <<115,99,101,110,97,114,105,111>>,
     <<109,111,114,101,32,100,101,116,97,105,108,115>>,
     <<101,108,97,98,111,114,97,116,101>>,
     <<99,108,97,114,105,102,121>>,
     <<119,104,97,116,32,100,111,32,121,111,117,32,109,101,97,110>>,
     <<99,97,110,32,121,111,117,32,101,120,112,108,97,105,110>>,
     <<104,101,108,112,32,109,101,32,117,110,100,101,114,115,116,97,110,100>>,
     <<98,114,101,97,107,32,105,116,32,100,111,119,110>>,
     <<105,110,32,115,105,109,112,108,101,32,116,101,114,109,115>>,
     <<115,105,109,112,108,101,114>>,
     <<101,97,115,105,101,114>>
  >>

\* follow_up_ar, backend.py:871-871, in table order; a string is the tuple of its
\* Unicode code points. The literals are:
\*   "\u0178\u00DC\u00FF\u03C0\u0178\u00D6"
\*   "\u00FF\u00A3\u00FF\u00A8\u0178\u00D1"
\*   "\u00FF\u2211\u0178\u00E4\u00FF\u00AE"
\*   "\u00FF\u2260\u00FF\u2265\u0178\u00DC\u00FF\u00DF"
\*   "\u0178\u00D6\u0178\u00E0\u00FF\u00DF\u0178\u00C5\u0178\u00C7"
\*   "\u00FF\u2122\u0178\u00D6\u00FF\u00DF\u0178\u00D6"
\*   "\u0178\u00E0\u00FF\u2202\u00FF\u2260"
\*   "\u00FF\u00DF\u00FF\u00A5\u00FF\u00B1\u00FF\u2260"
\*   "\u0178\u00D6\u00FF\u00B4\u00FF\u00DF\u0178\u00D1"
\*   "\u00FF\u00A3\u0178\u00D6\u00FF\u00B4\u0178\u00D1\u00FF\u00A9"
\*   "\u00FF\u2265\u0178\u00E4\u0178\u00DC\u00FF\u00DF\u00FF\u00B1\u0178\u00E4\u0178\u00E0"
\*   "\u00FF\u2122\u0178\u00C5\u00FF\u00DF\u00FF\u00B5\u0178\u00E4\u0178\u00D1 \u00FF\u00A3\u0178\u00C9\u00FF\u00B4\u00FF\u00B1"
\*   "\u00FF\u00AE\u00FF\u2265\u00FF\u2211"
\*   "\u00FF\u00AE\u00FF\u00A5\u0178\u00C9\u0178\u00D1 \u00FF\u00A3\u00FF\u00AE\u00FF\u2265\u00FF\u2211"
\*   "\u00FF\u2265\u00FF\u00DF\u00FF\u03C0\u00FF\u00D8\u0178\u00DC\u0178\u00E4 \u00FF\u00A3\u0178\u00C5\u0178\u00E1\u0178\u00D6"
\*   "\u0178\u00D6\u00FF\u00DF\u00FF\u221E\u00FF\u00DF \u00FF\u2122\u00FF\u03C0\u0178\u00DC\u0178\u00E4"
\*   "\u00FF\u00DF\u00FF\u00A5\u00FF\u00B1\u00FF\u2260 \u00FF\u00A3\u0178\u00C9\u00FF\u00B4\u00FF\u00B1"
follow_up_ar ==
  <<
     <<376,220,255,960,376,214>>,
     <<255,163,255,168,376,209>>,
     <<255,8721,376,228,255,174>>,
     <<255,8800,255,8805,376,220,255,223>>,
     <<376,214,376,224,255,223,376,197,376,199>>,
     <<255,8482,376,214,255,223,376,214>>,
     <<376,224,255,8706,255,8800>>,
     <<255,223,255,165,255,177,255,8800>>,
     <<376,214,255,180,255,223,376,209>>,
     <<255,163,376,214,255,180,376,209,255,169>>,
     <<255,8805,376,228,376,220,255,223,255,177,376,228,376,224>>,
     <<255,8482,376,197,255,223,255,181,376,228,376,209,32,255,163,376,201,255,180,255,177>>,
     <<255,174,255,8805,255,8721>>,
     <<255,174,255,165,376,201,376,209,32,255,163,255,174,255,8805,255,8721>>,
     <<255,8805,255,223,255,960,255,216,376,220,376,228,32,255,163,376,197,376,225,376,214>>,
     <<376,214,255,223,255,8734,255,223,32,255,8482,255,960,376,220,376,228>>,
     <<255,223,255,165,255,177,255,8800,32,255,163,376,201,255,180,255,177>>
  >>

\* sama_en, backend.py:744-744, in table order; a string is the tuple of its
\* Unicode code points. The literals are:
\*   "sama"
\*   "finance company"
\*   "finance companies"
\*   "financing company"
\*   "licensing fee"
\*   "real estate finance"
\*   "mortgage"
\*   "microfinance"
\*   "finance control"
\*   "monetary authority"
\*   "bank"
\*   "banking"
sama_en ==
  <<
     <<115,97,109,97>>,
     <<102,105,110,97,110,99,101,32,99,111,109,112,97,110,121>>,
     <<102,105,110,97,110,99,101,32,99,111,109,112,97,110,105,101,115>>,
     <<102,105,110,97,110,99,105,110,103,32,99,111,109,112,97,110,121>>,
     <<108,105,99,101,110,115,105,110,103,32,102,101,101>>,
     <<114,101,97,108,32,101,115,116,97,116,101,32,102,105,110,97,110,99,101>>,
     <<109,111,114,116,103,97,103,101>>,
     <<109,105,99,114,111,102,105,110,97,110,99,101>>,
     <<102,105,110,97,110,99,101,32,99,111,110,116,114,111,108>>,
     <<109,111,110,101,116,97,114,121,32,97,117,116,104,111,114,105,116,121>>,
     <<98,97,110,107>>,
     <<98,97,110,107,105,110,103>>
  >>

\* cma_en, backend.py:745-745, in table order; a string is the tuple of its
\* Unicode code points. The literals are:
\*   "cma"
\*   "capital market"
\*   "securities"
\*   "sukuk"
\*   "debt instrument"
\*   "investment fund"
\*   "qualified investor"
\*   "public offering"
\*   "ipo"
\*   "private placement"
\*   "prospectus"
\*   "listing"
\*   "merger"
\*   "acquisition"
\*   "stock"
\*   "shares"
\*   "exchange"
cma_en ==
  <<
     <<99,109,97>>,
     <<99,97,112,105,116,97,108,32,109,97,114,107,101,116>>,
     <<115,101,99,117,114,105,116,105,101,115>>,
     <<115,117,107,117,107>>,
     <<100,101,98,116,32,105,110,115,116,114,117,109,101,110,116>>,
     <<105,110,118,101,115,116,109,101,110,116,32,102,117,110,100>>,
     <<113,117,97,108,105,102,105,101,100,32,105,110,118,101,115,116,111,114>>,
     <<112,117,98,108,105,99,32,111,102,102,101,114,105,110,103>>,
     <<105,112,111>>,
     <<112,114,105,118,97,116,101,32,112,108,97,99,101,109,101,110,116>>,
     <<112,114,111,115,112,101,99,116,117,115>>,
     <<108,105,115,116,105,110,103>>,
     <<109,101,114,103,101,114>>,
     <<97,99,113,117,105,115,105,116,105,111,110>>,
     <<115,116,111,99,107>>,
     <<115,104,97,114,101,115>>,
     <<101,120,99,104,97,110,103,101>>
  >>

\* sama_ar, backend.py:746-746, in table order; a string is the tuple of its
\* Unicode code points. The literals are:
\*   "\u00FF\u2265\u00FF\u00DF\u0178\u00D6\u00FF\u00DF"
\*   "\u00FF\u00A5\u00FF\u00B1\u0178\u00C9\u00FF\u00A9 \u00FF\u00DF\u0178\u00D1\u00FF\u2122\u0178\u00D6\u0178\u00E0\u0178\u00E4\u0178\u00D1"
\*   "\u00FF\u00A5\u00FF\u00B1\u0178\u00C9\u00FF\u00DF\u00FF\u2122 \u00FF\u00DF\u0178\u00D1\u00FF\u2122\u0178\u00D6\u0178\u00E0\u0178\u00E4\u0178\u00D1"
\*   "\u00FF\u00B1\u00FF\u2265\u0178\u00E0\u0178\u00D6 \u00FF\u00DF\u0178\u00D1\u00FF\u2122\u00FF\u00B1\u00FF\u00C6\u0178\u00E4\u00FF\u00B5"
\*   "\u00FF\u00DF\u0178\u00D1\u00FF\u2122\u0178\u00D6\u0178\u00E0\u0178\u00E4\u0178\u00D1 \u00FF\u00DF\u0178\u00D1\u00FF\u03C0\u0178\u00C7\u00FF\u00DF\u00FF\u00B1\u0178\u00E4"
\*   "\u00FF\u00DF\u0178\u00D1\u00FF\u2122\u0178\u00D6\u0178\u00E0\u0178\u00E4\u0178\u00D1 \u00FF\u00DF\u0178\u00D1\u00FF\u00A3\u00FF\u00B5\u00FF\u222B\u00FF\u00B1"
\*   "\u0178\u00D6\u00FF\u00A7\u00FF\u2265\u00FF\u2265\u00FF\u00A9 \u00FF\u00DF\u0178\u00D1\u0178\u00DC\u0178\u00C7\u00FF\u00D8"
\*   "\u00FF\u00DF\u0178\u00D1\u00FF\u00AE\u0178\u00DC\u0178\u00C9 \u00FF\u00DF\u0178\u00D1\u0178\u00D6\u00FF\u00B1\u0178\u00C9\u00FF\u2264\u0178\u00E4"
\*   "\u00FF\u2122\u0178\u00D6\u0178\u00E0\u0178\u00E4\u0178\u00D1"
sama_ar ==
  <<
     <<255,8805,255,223,376,214,255,223>>,
     <<255,165,255,177,376,201,255,169,32,255,223,376,209,255,8482,376,214,376,224,376,228,376,209>>,
     <<255,165,255,177,376,201,255,223,255,8482,32,255,223,376,209,255,8482,376,214,376,224,376,228,376,209>>,
     <<255,177,255,8805,376,224,376,214,32,255,223,376,209,255,8482,255,177,255,198,376,228,255,181>>,
     <<255,223,376,209,255,8482,376,214,376,224,376,228,376,209,32,255,223,376,209,255,960,376,199,255,223,255,177,376,228>>,
     <<255,223,376,209,255,8482,376,214,376,224,376,228,376,209,32,255,223,376,209,255,163,255,181,255,8747,255,177>>,
     <<376,214,255,167,255,8805,255,8805,255,169,32,255,223,376,209,376,220,376,199,255,216>>,
     <<255,223,376,209,255,174,376,220,376,201,32,255,223,376,209,376,214,255,177,376,201,255,8804,376,228>>,
     <<255,8482,376,214,376,224,376,228,376,209>>
  >>

\* cma_ar, backend.py:747-747, in table order; a string is the tuple of its
\* Unicode code points. The literals are:
\*   "\u0178\u00D6\u00FF\u2265\u00FF\u2122\u00FF\u00B4\u0178\u00D6\u00FF\u00B1 \u0178\u00D6\u00FF\u00A7\u0178\u00E1\u0178\u00D1"
\*   "\u00FF\u00DF\u0178\u00D1\u0178\u00D6\u00FF\u2265\u00FF\u2122\u00FF\u00B4\u0178\u00D6\u00FF\u00B1 \u00FF\u00DF\u0178\u00D1\u0178\u00D6\u00FF\u00A7\u0178\u00E1\u0178\u00D1"
\*   "\u0178\u00E1\u0178\u00E4\u00FF\u00B6\u00FF\u00A9 \u00FF\u00DF\u0178\u00D1\u00FF\u2265\u0178\u00E0\u0178\u00C7 \u00FF\u00DF\u0178\u00D1\u0178\u00D6\u00FF\u00DF\u0178\u00D1\u0178\u00E4\u00FF\u00A9"
\*   "\u0178\u00E1\u0178\u00E4\u00FF\u00B6\u00FF\u00A9 \u00FF\u00DF\u0178\u00D1\u00FF\u2265\u0178\u00E0\u0178\u00C7"
\*   "\u00FF\u00B5\u0178\u00C9\u0178\u00E0\u0178\u00C9"
\*   "\u00FF\u00DF\u0178\u00D1\u00FF\u00B5\u0178\u00C9\u0178\u00E0\u0178\u00C9"
\*   "\u00FF\u2211\u00FF\u00B1\u00FF\u2260 \u00FF\u03C0\u00FF\u00DF\u0178\u00D6"
\*   "\u00FF\u2211\u00FF\u00B1\u00FF\u2260 \u00FF\u00C6\u00FF\u00DF\u00FF\u00B5"
\*   "\u0178\u00DC\u00FF\u00A5\u00FF\u00B1\u00FF\u00A9 \u00FF\u00DF\u0178\u00D1\u00FF\u2022\u00FF\u00B5\u00FF\u00D8\u00FF\u00DF\u00FF\u00B1"
\*   "\u00FF\u00B5\u0178\u00DC\u00FF\u00DF\u00FF\u00D8\u0178\u00E4\u0178\u00C7 \u00FF\u00DF\u0178\u00D1\u00FF\u00DF\u00FF\u2265\u00FF\u2122\u00FF\u00B4\u0178\u00D6\u00FF\u00DF\u00FF\u00B1"
\*   "\u00FF\u00A3\u0178\u00E0\u00FF\u00B1\u00FF\u00DF\u0178\u00C7 \u0178\u00D6\u00FF\u00DF\u0178\u00D1\u0178\u00E4\u00FF\u00A9"
\*   "\u00FF\u00DF\u0178\u00D1\u00FF\u00A3\u0178\u00E0\u00FF\u00B1\u00FF\u00DF\u0178\u00C7 \u00FF\u00DF\u0178\u00D1\u0178\u00D6\u00FF\u00DF\u0178\u00D1\u0178\u00E4\u00FF\u00A9"
\*   "\u00FF\u2265\u0178\u00E0\u0178\u00C7 \u00FF\u00DF\u0178\u00D1\u0178\u00D6\u00FF\u00DF\u0178\u00D1"
\*   "\u00FF\u00DF\u0178\u00D1\u00FF\u00DF\u0178\u00DC\u00FF\u00D8\u0178\u00D6\u00FF\u00DF\u00FF\u00A8"
\*   "\u00FF\u00DF\u0178\u00D1\u00FF\u00DF\u00FF\u2265\u00FF\u2122\u00FF\u2260\u0178\u00E0\u00FF\u00DF\u00FF\u221E"
\*   "\u00FF\u00DF\u0178\u00D1\u00FF\u00A3\u00FF\u2265\u0178\u00E1\u0178\u00D6"
\*   "\u00FF\u00DF\u0178\u00D1\u00FF\u2122\u00FF\u00D8\u00FF\u00DF\u0178\u00E0\u0178\u00D1"
cma_ar ==
  <<
     <<376,214,255,8805,255,8482,255,180,376,214,255,177,32,376,214,255,167,376,225,376,209>>,
     <<255,223,376,209,376,214,255,8805,255,8482,255,180,376,214,255,177,32,255,223,376,209,376,214,255,167,376,225,376,209>>,
     <<376,225,376,228,255,182,255,169,32,255,223,376,209,255,8805,376,224,376,199,32,255,223,376,209,376,214,255,223,376,209,376,228,255,169>>,
     <<376,225,376,228,255,182,255,169,32,255,223,376,209,255,8805,376,224,376,199>>,
     <<255,181,376,201,376,224,376,201>>,
     <<255,223,376,209,255,181,376,201,376,224,376,201>>,
     <<255,8721,255,177,255,8800,32,255,960,255,223,376,214>>,
     <<255,8721,255,177,255,8800,32,255,198,255,223,255,181>>,
     <<376,220,255,165,255,177,255,169,32,255,223,376,209,255,8226,255,181,255,216,255,223,255,177>>,
     <<255,181,376,220,255,223,255,216,376,228,376,199,32,255,223,376,209,255,223,255,8805,255,8482,255,180,376,214,255,223,255,177>>,
     <<255,163,376,224,255,177,255,223,376,199,32,376,214,255,223,376,209,376,228,255,169>>,
     <<255,223,376,209,255,163,376,224,255,177,255,223,376,199,32,255,223,376,209,376,214,255,223,376,209,376,228,255,169>>,
     <<255,8805,376,224,376,199,32,255,223,376,209,376,214,255,223,376,209>>,
     <<255,223,376,209,255,223,376,220,255,216,376,214,255,223,255,168>>,
     <<255,223,376,209,255,223,255,8805,255,8482,255,8800,376,224,255,223,255,8734>>,
     <<255,223,376,209,255,163,255,8805,376,225,376,214>>,
     <<255,223,376,209,255,8482,255,216,255,223,376,224,376,209>>
  >>

\* translations, backend.py:759-772, in table order; a string is the tuple of its
\* Unicode code points. The literals are:
\*   "\u00FF\u00B1\u00FF\u2265\u0178\u00E0\u0178\u00D6 \u00FF\u00DF\u0178\u00D1\u00FF\u2122\u00FF\u00B1\u00FF\u00C6\u0178\u00E4\u00FF\u00B5" -> "licensing fees"
\*   "\u00FF\u00B1\u00FF\u2265\u0178\u00E0\u0178\u00D6 \u00FF\u2122\u00FF\u00B1\u00FF\u00C6\u0178\u00E4\u00FF\u00B5" -> "licensing fees"
\*   "\u00FF\u00A5\u00FF\u00B1\u0178\u00C9\u00FF\u00DF\u00FF\u2122 \u00FF\u00DF\u0178\u00D1\u00FF\u2122\u0178\u00D6\u0178\u00E0\u0178\u00E4\u0178\u00D1" -> "finance companies"
\*   "\u00FF\u00A5\u00FF\u00B1\u0178\u00C9\u00FF\u00A9 \u00FF\u00DF\u0178\u00D1\u00FF\u2122\u0178\u00D6\u0178\u00E0\u0178\u00E4\u0178\u00D1" -> "finance company"
\*   "\u00FF\u00DF\u0178\u00D1\u00FF\u2122\u0178\u00D6\u0178\u00E0\u0178\u00E4\u0178\u00D1 \u00FF\u00DF\u0178\u00D1\u00FF\u03C0\u0178\u00C7\u00FF\u00DF\u00FF\u00B1\u0178\u00E4" -> "real estate finance"
\*   "\u00FF\u00DF\u0178\u00D1\u00FF\u2122\u0178\u00D6\u0178\u00E0\u0178\u00E4\u0178\u00D1 \u00FF\u00DF\u0178\u00D1\u00FF\u00A3\u00FF\u00B5\u00FF\u222B\u00FF\u00B1" -> "microfinance"
\*   "\u00FF\u00DF\u0178\u00D1\u0178\u00D6\u00FF\u2265\u00FF\u2122\u00FF\u00B4\u0178\u00D6\u00FF\u00B1 \u00FF\u00DF\u0178\u00D1\u0178\u00D6\u00FF\u00A7\u0178\u00E1\u0178\u00D1" -> "qualified investor"
\*   "\u0178\u00D6\u00FF\u2265\u00FF\u2122\u00FF\u00B4\u0178\u00D6\u00FF\u00B1 \u0178\u00D6\u00FF\u00A7\u0178\u00E1\u0178\u00D1" -> "qualified investor"
\*   "\u00FF\u00DF\u0178\u00D1\u00FF\u00B5\u0178\u00C9\u0178\u00E0\u0178\u00C9" -> "sukuk debt instruments"
\*   "\u00FF\u00B5\u0178\u00C9\u0178\u00E0\u0178\u00C9" -> "sukuk debt instruments"
\*   "\u00FF\u00A3\u00FF\u00D8\u0178\u00E0\u00FF\u00DF\u00FF\u2122 \u00FF\u00DF\u0178\u00D1\u00FF\u00D8\u0178\u00E4\u0178\u00DC" -> "debt instruments"
\*   "\u00FF\u2211\u00FF\u00B1\u00FF\u2260 \u00FF\u03C0\u00FF\u00DF\u0178\u00D6" -> "public offering"
\*   "\u00FF\u2211\u00FF\u00B1\u00FF\u2260 \u00FF\u00C6\u00FF\u00DF\u00FF\u00B5" -> "private placement"
\*   "\u0178\u00DC\u00FF\u00A5\u00FF\u00B1\u00FF\u00A9 \u00FF\u00DF\u0178\u00D1\u00FF\u2022\u00FF\u00B5\u00FF\u00D8\u00FF\u00DF\u00FF\u00B1" -> "prospectus"
\*   "\u00FF\u00B5\u0178\u00DC\u00FF\u00DF\u00FF\u00D8\u0178\u00E4\u0178\u00C7 \u00FF\u00DF\u0178\u00D1\u00FF\u00DF\u00FF\u2265\u00FF\u2122\u00FF\u00B4\u0178\u00D6\u00FF\u00DF\u00FF\u00B1" -> "investment funds"
\*   "\u00FF\u00B5\u0178\u00DC\u00FF\u00D8\u0178\u00E0\u0178\u00C7 \u00FF\u00DF\u00FF\u2265\u00FF\u2122\u00FF\u00B4\u0178\u00D6\u00FF\u00DF\u00FF\u00B1" -> "investment fund"
\*   "\u00FF\u00B1\u00FF\u00A3\u00FF\u2265 \u00FF\u00DF\u0178\u00D1\u0178\u00D6\u00FF\u00DF\u0178\u00D1" -> "capital requirements"
\*   "\u0178\u00D6\u00FF\u2122\u00FF\u2211\u0178\u00D1\u00FF\u00AE\u00FF\u00DF\u00FF\u2122 \u00FF\u00B1\u00FF\u00A3\u00FF\u2265 \u00FF\u00DF\u0178\u00D1\u0178\u00D6\u00FF\u00DF\u0178\u00D1" -> "capital requirements"
\*   "\u00FF\u00DF\u0178\u00D1\u00FF\u2260\u00FF\u00D8 \u00FF\u00DF\u0178\u00D1\u00FF\u00A3\u00FF\u00D8\u0178\u00DC\u0178\u00E2" -> "minimum requirements"
\*   "\u0178\u00E1\u0178\u00E4\u00FF\u00B6\u00FF\u00A9 \u00FF\u00DF\u0178\u00D1\u00FF\u2265\u0178\u00E0\u0178\u00C7 \u00FF\u00DF\u0178\u00D1\u0178\u00D6\u00FF\u00DF\u0178\u00D1\u0178\u00E4\u00FF\u00A9" -> "capital market authority CMA"
\*   "\u0178\u00D6\u00FF\u00A7\u00FF\u2265\u00FF\u2265\u00FF\u00A9 \u00FF\u00DF\u0178\u00D1\u0178\u00DC\u0178\u00C7\u00FF\u00D8" -> "SAMA monetary authority"
\*   "\u00FF\u2265\u00FF\u00DF\u0178\u00D6\u00FF\u00DF" -> "SAMA"
\*   "\u00FF\u00DF\u0178\u00D1\u00FF\u00DF\u0178\u00DC\u00FF\u00D8\u0178\u00D6\u00FF\u00DF\u00FF\u00A8" -> "merger"
\*   "\u00FF\u00DF\u0178\u00D1\u00FF\u00DF\u00FF\u2265\u00FF\u2122\u00FF\u2260\u0178\u00E0\u00FF\u00DF\u00FF\u221E" -> "acquisition"
\*   "\u00FF\u00DF\u0178\u00D1\u00FF\u00A3\u00FF\u2265\u0178\u00E1\u0178\u00D6" -> "shares stocks"
\*   "\u00FF\u00DF\u0178\u00D1\u00FF\u2022\u0178\u00C5\u00FF\u00B5\u00FF\u00DF\u00FF\u2260" -> "disclosure"
\*   "\u00FF\u00DF\u0178\u00D1\u00FF\u2260\u0178\u00E0\u0178\u00C9\u0178\u00D6\u00FF\u00A9" -> "governance"
\*   "\u0178\u00D6\u00FF\u00A8\u0178\u00D1\u00FF\u2265 \u00FF\u00DF\u0178\u00D1\u00FF\u2022\u00FF\u00D8\u00FF\u00DF\u00FF\u00B1\u00FF\u00A9" -> "board of directors"
\*   "\u00FF\u2122\u0178\u00C7\u00FF\u00B1\u0178\u00E4\u00FF\u00B1 \u00FF\u2265\u0178\u00DC\u0178\u00E0\u0178\u00E4" -> "annual report"
\*   "\u00FF\u00DF\u0178\u00D1\u0178\u00C7\u0178\u00E0\u00FF\u00DF\u00FF\u00B6\u0178\u00D6 \u00FF\u00DF\u0178\u00D1\u0178\u00D6\u00FF\u00DF\u0178\u00D1\u0178\u00E4\u00FF\u00A9" -> "financial statements"
\*   "\u00FF\u00DF\u0178\u00D1\u0178\u00D6\u00FF\u00B1\u00FF\u00DF\u00FF\u00A8\u00FF\u03C0 \u00FF\u00DF\u0178\u00D1\u00FF\u00C6\u00FF\u00DF\u00FF\u00B1\u00FF\u00A8\u0178\u00E4" -> "external auditor"
\*   "\u00FF\u00DF\u0178\u00D1\u00FF\u03C0\u0178\u00C7\u0178\u00E0\u00FF\u00AE\u00FF\u00DF\u00FF\u2122" -> "penalties"
\*   "\u00FF\u00DF\u0178\u00D1\u0178\u00D6\u00FF\u00C6\u00FF\u00DF\u0178\u00D1\u0178\u00C5\u00FF\u00DF\u00FF\u2122" -> "violations"
\*   "\u00FF\u00DF\u0178\u00D1\u00FF\u2122\u00FF\u00B1\u00FF\u00C6\u0178\u00E4\u00FF\u00B5" -> "license licensing"
\*   "\u00FF\u00DF\u0178\u00D1\u00FF\u2122\u00FF\u2265\u00FF\u00A8\u0178\u00E4\u0178\u00D1" -> "registration"
\*   "\u00FF\u00DF\u0178\u00D1\u00FF\u2022\u00FF\u00D8\u00FF\u00B1\u00FF\u00DF\u00FF\u00A8" -> "listing"
\*   "\u00FF\u00DF\u0178\u00D1\u00FF\u2265\u0178\u00E0\u0178\u00C7 \u00FF\u00DF\u0178\u00D1\u0178\u00D6\u0178\u00E0\u00FF\u00DF\u00FF\u2264\u0178\u00E4\u00FF\u00A9" -> "parallel market"
\*   "\u00FF\u00DF\u0178\u00D1\u00FF\u2211\u00FF\u00B1\u00FF\u2260" -> "offering"
\*   "\u00FF\u00DF\u0178\u00D1\u00FF\u00DF\u0178\u00C9\u00FF\u2122\u00FF\u2122\u00FF\u00DF\u00FF\u00AE" -> "subscription IPO"
translations ==
  <<
     <<<<255,177,255,8805,376,224,376,214,32,255,223,376,209,255,8482,255,177,255,198,376,228,255,181>>, <<108,105,99,101,110,115,105,110,103,32,102,101,101,115>>>>,
     <<<<255,177,255,8805,376,224,376,214,32,255,8482,255,177,255,198,376,228,255,181>>, <<108,105,99,101,110,115,105,110,103,32,102,101,101,115>>>>,
     <<<<255,165,255,177,376,201,255,223,255,8482,32,255,223,376,209,255,8482,376,214,376,224,376,228,376,209>>, <<102,105,110,97,110,99,101,32,99,111,109,112,97,110,105,101,115>>>>,
     <<<<255,165,255,177,376,201,255,169,32,255,223,376,209,255,8482,376,214,376,224,376,228,376,209>>, <<102,105,110,97,110,99,101,32,99,111,109,112,97,110,121>>>>,
     <<<<255,223,376,209,255,8482,376,214,376,224,376,228,376,209,32,255,223,376,209,255,960,376,199,255,223,255,177,376,228>>, <<114,101,97,108,32,101,115,116,97,116,101,32,102,105,110,97,110,99,101>>>>,
     <<<<255,223,376,209,255,8482,376,214,376,224,376,228,376,209,32,255,223,376,209,255,163,255,181,255,8747,255,177>>, <<109,105,99,114,111,102,105,110,97,110,99,101>>>>,
     <<<<255,223,376,209,376,214,255,8805,255,8482,255,180,376,214,255,177,32,255,223,376,209,376,214,255,167,376,225,376,209>>, <<113,117,97,108,105,102,105,101,100,32,105,110,118,101,115,116,111,114>>>>,
     <<<<376,214,255,8805,255,8482,255,180,376,214,255,177,32,376,214,255,167,376,225,376,209>>, <<113,117,97,108,105,102,105,101,100,32,105,110,118,101,115,116,111,114>>>>,
     <<<<255,223,376,209,255,181,376,201,376,224,376,201>>, <<115,117,107,117,107,32,100,101,98,116,32,105,110,115,116,114,117,109,101,110,116,115>>>>,
     <<<<255,181,376,201,376,224,376,201>>, <<115,117,107,117,107,32,100,101,98,116,32,105,110,115,116,114,117,109,101,110,116,115>>>>,
     <<<<255,163,255,216,376,224,255,223,255,8482,32,255,223,376,209,255,216,376,228,376,220>>, <<100,101,98,116,32,105,110,115,116,114,117,109,101,110,116,115>>>>,
     <<<<255,8721,255,177,255,8800,32,255,960,255,223,376,214>>, <<112,117,98,108,105,99,32,111,102,102,101,114,105,110,103>>>>,
     <<<<255,8721,255,177,255,8800,32,255,198,255,223,255,181>>, <<112,114,105,118,97,116,101,32,112,108,97,99,101,109,101,110,116>>>>,
     <<<<376,220,255,165,255,177,255,169,32,255,223,376,209,255,8226,255,181,255,216,255,223,255,177>>, <<112,114,111,115,112,101,99,116,117,115>>>>,
     <<<<255,181,376,220,255,223,255,216,376,228,376,199,32,255,223,376,209,255,223,255,8805,255,8482,255,180,376,214,255,223,255,177>>, <<105,110,118,101,115,116,109,101,110,116,32,102,117,110,100,115>>>>,
     <<<<255,181,376,220,255,216,376,224,376,199,32,255,223,255,8805,255,8482,255,180,376,214,255,223,255,177>>, <<105,110,118,101,115,116,109,101,110,116,32,102,117,110,100>>>>,
     <<<<255,177,255,163,255,8805,32,255,223,376,209,376,214,255,223,376,209>>, <<99,97,112,105,116,97,108,32,114,101,113,117,105,114,101,109,101,110,116,115>>>>,
     <<<<376,214,255,8482,255,8721,376,209,255,174,255,223,255,8482,32,255,177,255,163,255,8805,32,255,223,376,209,376,214,255,223,376,209>>, <<99,97,112,105,116,97,108,32,114,101,113,117,105,114,101,109,101,110,116,115>>>>,
     <<<<255,223,376,209,255,8800,255,216,32,255,223,376,209,255,163,255,216,376,220,376,226>>, <<109,105,110,105,109,117,109,32,114,101,113,117,105,114,101,109,101,110,116,115>>>>,
     <<<<376,225,376,228,255,182,255,169,32,255,223,376,209,255,8805,376,224,376,199,32,255,223,376,209,376,214,255,223,376,209,376,228,255,169>>, <<99,97,112,105,116,97,108,32,109,97,114,107,101,116,32,97,117,116,104,111,114,105,116,121,32,67,77,65>>>>,
     <<<<376,214,255,167,255,8805,255,8805,255,169,32,255,223,376,209,376,220,376,199,255,216>>, <<83,65,77,65,32,109,111,110,101,116,97,114,121,32,97,117,116,104,111,114,105,116,121>>>>,
     <<<<255,8805,255,223,376,214,255,223>>, <<83,65,77,65>>>>,
     <<<<255,223,376,209,255,223,376,220,255,216,376,214,255,223,255,168>>, <<109,101,114,103,101,114>>>>,
     <<<<255,223,376,209,255,223,255,8805,255,8482,255,8800,376,224,255,223,255,8734>>, <<97,99,113,117,105,115,105,116,105,111,110>>>>,
     <<<<255,223,376,209,255,163,255,8805,376,225,376,214>>, <<115,104,97,114,101,115,32,115,116,111,99,107,115>>>>,
     <<<<255,223,376,209,255,8226,376,197,255,181,255,223,255,8800>>, <<100,105,115,99,108,111,115,117,114,101>>>>,
     <<<<255,223,376,209,255,8800,376,224,376,201,376,214,255,169>>, <<103,111,118,101,114,110,97,110,99,101>>>>,
     <<<<376,214,255,168,376,209,255,8805,32,255,223,376,209,255,8226,255,216,255,223,255,177,255,169>>, <<98,111,97,114,100,32,111,102,32,100,105,114,101,99,116,111,114,115>>>>,
     <<<<255,8482,376,199,255,177,376,228,255,177,32,255,8805,376,220,376,224,376,228>>, <<97,110,110,117,97,108,32,114,101,112,111,114,116>>>>,
     <<<<255,223,376,209,376,199,376,224,255,223,255,182,376,214,32,255,223,376,209,376,214,255,223,376,209,376,228,255,169>>, <<102,105,110,97,110,99,105,97,108,32,115,116,97,116,101,109,101,110,116,115>>>>,
     <<<<255,223,376,209,376,214,255,177,255,223,255,168,255,960,32,255,223,376,209,255,198,255,223,255,177,255,168,376,228>>, <<101,120,116,101,114,110,97,108,32,97,117,100,105,116,111,114>>>>,
     <<<<255,223,376,209,255,960,376,199,376,224,255,174,255,223,255,8482>>, <<112,101,110,97,108,116,105,101,115>>>>,
     <<<<255,223,376,209,376,214,255,198,255,223,376,209,376,197,255,223,255,8482>>, <<118,105,111,108,97,116,105,111,110,115>>>>,
     <<<<255,223,376,209,255,8482,255,177,255,198,376,228,255,181>>, <<108,105,99,101,110,115,101,32,108,105,99,101,110,115,105,110,103>>>>,
     <<<<255,223,376,209,255,8482,255,8805,255,168,376,228,376,209>>, <<114,101,103,105,115,116,114,97,116,105,111,110>>>>,
     <<<<255,223,376,209,255,8226,255,216,255,177,255,223,255,168>>, <<108,105,115,116,105,110,103>>>>,
     <<<<255,223,376,209,255,8805,376,224,376,199,32,255,223,376,209,376,214,376,224,255,223,255,8804,376,228,255,169>>, <<112,97,114,97,108,108,101,108,32,109,97,114,107,101,116>>>>,
     <<<<255,223,376,209,255,8721,255,177,255,8800>>, <<111,102,102,101,114,105,110,103>>>>,
     <<<<255,223,376,209,255,223,376,201,255,8482,255,8482,255,223,255,174>>, <<115,117,98,115,99,114,105,112,116,105,111,110,32,73,80,79>>>>
  >>

\* mappings, backend.py:781-788, in table order; a string is the tuple of its
\* Unicode code points. The literals are:
\*   "sukuk" -> "debt instruments securities bonds"
\*   "sukuk issuance" -> "debt instruments offering securities"
\*   "debt instruments" -> "sukuk securities bonds"
\*   "licensing fee" -> "license fee financial consideration"
\*   "licensing fees" -> "license fee financial consideration"
\*   "qualified investor" -> "accredited investor"
\*   "capital requirements" -> "minimum capital paid up capital"
\*   "finance company" -> "finance companies"
\*   "microfinance" -> "micro finance small finance"
\*   "real estate finance" -> "mortgage property finance"
\*   "investment fund" -> "investment funds"
\*   "public offering" -> "IPO offering securities"
\*   "private placement" -> "exempt offering"
mappings ==
  <<
     <<<<115,117,107,117,107>>, <<100,101,98,116,32,105,110,115,116,114,117,109,101,110,116,115,32,115,101,99,117,114,105,116,105,101,115,32,98,111,110,100,115>>>>,
     <<<<115,117,107,117,107,32,105,115,115,117,97,110,99,101>>, <<100,101,98,116,32,105,110,115,116,114,117,109,101,110,116,115,32,111,102,102,101,114,105,110,103,32,115,101,99,117,114,105,116,105,101,115>>>>,
     <<<<100,101,98,116,32,105,110,115,116,114,117,109,101,110,116,115>>, <<115,117,107,117,107,32,115,101,99,117,114,105,116,105,101,115,32,98,111,110,100,115>>>>,
     <<<<108,105,99,101,110,115,105,110,103,32,102,101,101>>, <<108,105,99,101,110,115,101,32,102,101,101,32,102,105,110,97,110,99,105,97,108,32,99,111,110,115,105,100,101,114,97,116,105,111,110>>>>,
     <<<<108,105,99,101,110,115,105,110,103,32,102,101,101,115>>, <<108,105,99,101,110,115,101,32,102,101,101,32,102,105,110,97,110,99,105,97,108,32,99,111,110,115,105,100,101,114,97,116,105,111,110>>>>,
     <<<<113,117,97,108,105,102,105,101,100,32,105,110,118,101,115,116,111,114>>, <<97,99,99,114,101,100,105,116,101,100,32,105,110,118,101,115,116,111,114>>>>,
     <<<<99,97,112,105,116,97,108,32,114,101,113,117,105,114,101,109,101,110,116,115>>, <<109,105,110,105,109,117,109,32,99,97,112,105,116,97,108,32,112,97,105,100,32,117,112,32,99,97,112,105,116,97,108>>>>,
     <<<<102,105,110,97,110,99,101,32,99,111,109,112,97,110,121>>, <<102,105,110,97,110,99,101,32,99,111,109,112,97,110,105,101,115>>>>,
     <<<<109,105,99,114,111,102,105,110,97,110,99,101>>, <<109,105,99,114,111,32,102,105,110,97,110,99,101,32,115,109,97,108,108,32,102,105,110,97,110,99,101>>>>,
     <<<<114,101,97,108,32,101,115,116,97,116,101,32,102,105,110,97,110,99,101>>, <<109,111,114,116,103,97,103,101,32,112,114,111,112,101,114,116,121,32,102,105,110,97,110,99,101>>>>,
     <<<<105,110,118,101,115,116,109,101,110,116,32,102,117,110,100>>, <<105,110,118,101,115,116,109,101,110,116,32,102,117,110,100,115>>>>,
     <<<<112,117,98,108,105,99,32,111,102,102,101,114,105,110,103>>, <<73,80,79,32,111,102,102,101,114,105,110,103,32,115,101,99,117,114,105,116,105,101,115>>>>,
     <<<<112,114,105,118,97,116,101,32,112,108,97,99,101,109,101,110,116>>, <<101,120,101,109,112,116,32,111,102,102,101,114,105,110,103>>>>
  >>
(***************************************************************************)
(* Classifier, bridge, expander and guards (pure functions of the query)   *)
(***************************************************************************)

\* detect_language as it would be with >= in place of >; the threshold
\* property C16_DetectLanguageThreshold tells the two apart
detect_language_at_least(text) ==
  LET arabic_chars == Cardinality({i \in 1..Len(text) : text[i] \in 1536..1791})
  IN  IF 10 * arabic_chars >= 3 * Len(text) THEN "ar" ELSE "en"
\* TadqeeqRAG.detect_language: arabic_chars > len(text) * 0.3
detect_language(text) ==
  LET arabic_chars == Cardinality({i \in 1..Len(text) : text[i] \in 1536..1791})
  IN  IF 10 * arabic_chars > 3 * Len(text) THEN "ar" ELSE "en"

\* detect_regulator as it would be if the English keywords were looked up in
\* the query as typed; the property C17_DetectRegulator tells the two apart
detect_regulator_as_typed(query) ==
  LET sama_match == AnyIn(sama_en, query) \/ AnyIn(sama_ar, query)
      cma_match == AnyIn(cma_en, query) \/ AnyIn(cma_ar, query)
  IN  IF sama_match /\ cma_match THEN "BOTH"
      ELSE IF sama_match THEN "SAMA"
      ELSE IF cma_match THEN "CMA"
      ELSE "BOTH"
\* TadqeeqRAG.detect_regulator
detect_regulator(query) ==
  LET q_lower == Lower(query)
      sama_match == AnyIn(sama_en, q_lower) \/ AnyIn(sama_ar, query)
      cma_match == AnyIn(cma_en, q_lower) \/ AnyIn(cma_ar, query)
  IN  IF sama_match /\ cma_match THEN "BOTH"
      ELSE IF sama_match THEN "SAMA"
      ELSE IF cma_match THEN "CMA"
      ELSE "BOTH"

\* the k-th smallest element of a set of numbers
Nth(S, k) == CHOOSE i \in S : Cardinality({j \in S : j < i}) = k - 1

\* the concatenation of sep \o x for the strings x of a short sequence
RECURSIVE AppendAll(_, _, _)
AppendAll(result, xs, sep) ==
  IF xs = <<>> THEN result
  ELSE AppendAll(result \o sep \o Head(xs), Tail(xs), sep)

\* the second components of the table entries whose first component occurs in
\* query, in table order
MatchedValues(table, query) ==
  LET hits == {i \in 1..Len(table) : Contains(query, table[i][1])}
  IN  [k \in 1..Cardinality(hits) |-> table[Nth(hits, k)][2]]

\* translate_arabic_query as it would be if result started empty, so that
\* only the English phrases were returned; the property
\* C18_BridgeAppendsPhrases tells the two apart
translate_arabic_query_phrases_only(query) ==
  LET en == MatchedValues(translations, query)
  IN  IF en = <<>> THEN query ELSE AppendAll(Head(en), Tail(en), <<32>>)
\* TadqeeqRAG.translate_arabic_query: result = result + ' ' + en for every
\* table entry whose key is in the query, in table order
translate_arabic_query(query) ==
  AppendAll(query, MatchedValues(translations, query), <<32>>)

\* ' '.join(xs)
JoinSpace(xs) ==
  IF xs = <<>> THEN <<>> ELSE AppendAll(Head(xs), Tail(xs), <<32>>)

\* expand_query as it would be if the expansions were appended to the
\* lowercased copy q; the property C19_ExpandKeepsQuery tells the two apart
expand_query_lowered(query, lang) ==
  LET expansions == MatchedValues(mappings, Lower(query))
  IN  IF expansions # <<>> THEN Lower(query) \o <<32>> \o JoinSpace(expansions)
      ELSE query
\* TadqeeqRAG.expand_query
expand_query(query, lang) ==
  LET expansions == MatchedValues(mappings, Lower(query))
  IN  IF expansions # <<>> THEN query \o <<32>> \o JoinSpace(expansions)
      ELSE query

\* is_follow_up as it would be if the length test counted the query with its
\* surrounding whitespace; the property C20_IsFollowUp tells the two apart
is_follow_up_untrimmed(query) ==
  LET query_lower == Strip(Lower(query))
  IN  \/ AnyIn(follow_up_en, query_lower)
      \/ AnyIn(follow_up_ar, query)
      \/ (Len(query) < 15 /\ WordCount(query) <= 3)
\* TadqeeqRAG.is_follow_up
is_follow_up(query) ==
  LET query_lower == Strip(Lower(query))
  IN  \/ AnyIn(follow_up_en, query_lower)
      \/ AnyIn(follow_up_ar, query)
      \/ (Len(Strip(query)) < 15 /\ WordCount(query) <= 3)

\* TadqeeqRAG.is_out_of_domain
is_out_of_domain(query) == AnyIn(out_of_domain, Lower(query))

(***************************************************************************)
(* Bounds of the model                                                     *)
(***************************************************************************)

\* documents in a corpus or vector collection of the retriever specifications
MaxDocs == 2
\* largest top_k tried in the retriever specifications (the code's default is 15)
MaxTopK == 2
\* phrases in a query given to the classifier, the bridge, the expander and
\* the follow-up test
MaxPieces == 2
\* characters between the first and the last word, and words, of a query
\* given to the follow-up test
MaxChars == 16
MaxWords == 4
\* characters of the Arabic block, and other characters, in a text given to
\* detect_language
MaxArabic == 4
MaxOther == 7
\* largest n_results tried in the fusion specification (the code's default is 3)
MaxNResults == 3
\* entries the lexical index may have beyond the document list: the index and
\* the list are written by one build, so there are none unless the two files
\* come from different builds
MaxExtra == 0

(***************************************************************************)
(* Documents                                                               *)
(***************************************************************************)

Doc(t, a, d, r, l) ==
  [text |-> t, article |-> a, document |-> d, regulator |-> r, language |-> l]

\* the documents corpora are drawn from: both regulators, both languages, two
\* source documents that share an article label, and one (document, article)
\* pair present in both languages
DocUniverse ==
  << Doc("t1", "Article 1", "SAMA_Finance", "SAMA", "en"),
     Doc("t2", "Article 1", "CMA_Funds", "CMA", "en"),
     Doc("t3", "Article 2", "CMA_Funds", "CMA", "en"),
     Doc("t4", "Article 1", "SAMA_Finance", "SAMA", "ar") >>

\* the sequence of the elements of a set of indices, ascending
RECURSIVE SortedSeq(_)
SortedSeq(S) ==
  IF S = {} THEN <<>>
  ELSE LET m == CHOOSE x \in S : \A y \in S : x <= y
       IN  <<m>> \o SortedSeq(S \ {m})

\* the corpora of at most n documents
Corpora(n) ==
  { [i \in 1..Cardinality(S) |-> DocUniverse[SortedSeq(S)[i]]] :
      S \in {T \in SUBSET (1..Len(DocUniverse)) : Cardinality(T) <= n} }

\* the permutations of 1..n, as sequences
Perms(n) == {f \in [1..n -> 1..n] : \A i, j \in 1..n : i # j => f[i] # f[j]}

(***************************************************************************)
(* Lexical retriever                                                       *)
(***************************************************************************)

\* the values BM25.get_scores may give a document
ScoreVals == {0, 1, 2}

\* np.argsort(scores)[::-1]: a permutation of the indices in non-increasing
\* score order; the order among equal scores is not specified by the sort
ArgsortDesc(scores) ==
  {o \in Perms(Len(scores)) :
     \A i, j \in 1..Len(scores) : i < j => scores[o[i]] >= scores[o[j]]}

\* bm25_search as it would be without the language test of its loop; the
\* filter property C8_Bm25ResultsMatchFilters tells the two apart
bm25_visit_any_language(docs, scores, idx, regulator, search_lang, top_k, results) ==
  IF Len(results) >= top_k \/ idx > Len(docs) THEN results
  ELSE IF regulator # "BOTH" /\ docs[idx].regulator # regulator THEN results
  ELSE IF scores[idx] > 0
       THEN Append(results, [doc |-> docs[idx], score |-> scores[idx],
                             source |-> "bm25"])
  ELSE results

\* bm25_search as it would be with "scores[idx] >= 0" in its loop; the top-k
\* property C9_Bm25FirstTopK tells the two apart
bm25_visit_nonnegative(docs, scores, idx, regulator, search_lang, top_k, results) ==
  IF Len(results) >= top_k \/ idx > Len(docs) THEN results
  ELSE IF regulator # "BOTH" /\ docs[idx].regulator # regulator THEN results
  ELSE IF docs[idx].language # search_lang THEN results
  ELSE IF scores[idx] >= 0
       THEN Append(results, [doc |-> docs[idx], score |-> scores[idx],
                             source |-> "bm25"])
  ELSE results

\* one iteration of the loop of bm25_search: the result list after index idx
bm25_visit(docs, scores, idx, regulator, search_lang, top_k, results) ==
  IF Len(results) >= top_k \/ idx > Len(docs) THEN results
  ELSE IF regulator # "BOTH" /\ docs[idx].regulator # regulator THEN results
  ELSE IF docs[idx].language # search_lang THEN results
  ELSE IF scores[idx] > 0
       THEN Append(results, [doc |-> docs[idx], score |-> scores[idx],
                             source |-> "bm25"])
  ELSE results

\* the loop of bm25_search over the sorted indices
RECURSIVE bm25_walk(_, _, _, _, _, _, _, _)
bm25_walk(docs, scores, order, regulator, search_lang, top_k, i, results) ==
  IF i > Len(order) THEN results
  ELSE bm25_walk(docs, scores, order, regulator, search_lang, top_k, i + 1,
                 bm25_visit(docs, scores, order[i], regulator, search_lang,
                            top_k, results))

\* TadqeeqRAG.bm25_search; scores is the result of self.bm25.get_scores(tokens)
\* and order the result of np.argsort(scores)[::-1]
bm25_search(docs, query, scores, order, regulator, language, top_k, force_english) ==
  LET search_lang == IF force_english THEN "en" ELSE language
      tokens == Tokenize(query)
  IN  IF tokens = <<>> THEN <<>>
      ELSE bm25_walk(docs, scores, order, regulator, search_lang, top_k,
                     1, <<>>)

(***************************************************************************)
(* Semantic retriever                                                      *)
(***************************************************************************)

\* the distances the vector index may report
DistVals == {0, 1}

\* the answers of the vector index to one embedded query: the entries of the
\* collection, nearest first, each with its distance
Rankings(coll) ==
  { [i \in 1..Len(coll) |-> [entry |-> coll[o[i]], dist |-> d[i]]] :
      o \in Perms(Len(coll)),
      d \in {e \in [1..Len(coll) -> DistVals] :
               \A i, j \in 1..Len(coll) : i < j => e[i] <= e[j]} }

\* the "where" argument built by semantic_search
WhereClause(regulator, search_lang) ==
  IF regulator = "BOTH" THEN [language |-> search_lang]
  ELSE [language |-> search_lang, regulator |-> regulator]

MatchesWhere(meta, where) ==
  \A f \in DOMAIN where : meta[f] = where[f]

\* the entries of the ranking that match the filter, in order
RECURSIVE SelectWhere(_, _)
SelectWhere(ranking, where) ==
  IF ranking = <<>> THEN <<>>
  ELSE (IF MatchesWhere(Head(ranking).entry, where) THEN <<Head(ranking)>> ELSE <<>>)
       \o SelectWhere(Tail(ranking), where)

\* collection.query(query_embeddings, n_results, where): the n_results nearest
\* entries that match the filter
collection_query_where(ranking, n_results, where) ==
  FirstN(SelectWhere(ranking, where), n_results)

\* collection.query(query_embeddings, n_results) without a filter
collection_query(ranking, n_results) == FirstN(ranking, n_results)

\* the client-side loop as it would be without its language test; the filter
\* property C10_SemanticResultsMatchFilters tells the two apart
RECURSIVE semantic_filter_any_language(_, _, _)
semantic_filter_any_language(results, regulator, search_lang) ==
  IF results = <<>> THEN <<>>
  ELSE
    LET meta == Head(results).entry
        rest == semantic_filter_any_language(Tail(results), regulator, search_lang)
    IN  IF regulator # "BOTH" /\ meta.regulator # regulator THEN rest
        ELSE << [doc |-> Doc(meta.text, meta.article, meta.document,
                             meta.regulator, meta.language),
                 score |-> [num |-> 1, den |-> 1 + Head(results).dist],
                 source |-> "semantic"] >> \o rest

\* the client-side loop of semantic_search over the returned neighbours
RECURSIVE semantic_filter(_, _, _)
semantic_filter(results, regulator, search_lang) ==
  IF results = <<>> THEN <<>>
  ELSE
    LET meta == Head(results).entry
        rest == semantic_filter(Tail(results), regulator, search_lang)
    IN  IF regulator # "BOTH" /\ meta.regulator # regulator THEN rest
        ELSE IF meta.language # search_lang THEN rest
        ELSE << [doc |-> Doc(meta.text, meta.article, meta.document,
                             meta.regulator, meta.language),
                 score |-> [num |-> 1, den |-> 1 + Head(results).dist],
                 source |-> "semantic"] >> \o rest

\* TadqeeqRAG.semantic_search. ranking is the index's nearest-first answer for
\* the embedded query; filtered_ok and unfiltered_ok say whether the filtered
\* query and the fallback query succeed. The result is the returned list, or
\* raised when the fallback query raises (it is outside the try block).
semantic_search(ranking, filtered_ok, unfiltered_ok, regulator, language, top_k, force_english) ==
  LET search_lang == IF force_english THEN "en" ELSE language
      where == WhereClause(regulator, search_lang)
  IN  IF ~filtered_ok /\ ~unfiltered_ok THEN [raised |-> TRUE, output |-> <<>>]
      ELSE
        LET results == IF filtered_ok
                       THEN collection_query_where(ranking, top_k, where)
                       ELSE collection_query(ranking, top_k * 2)
        IN  [raised |-> FALSE,
             output |-> FirstN(semantic_filter(results, regulator, search_lang), top_k)]

(***************************************************************************)
(* Rank fusion                                                             *)
(***************************************************************************)

\* k of hybrid_search
RRF_K == 60

\* f"{r['doc']['document']}:{r['doc']['article']}"
FuseKey(doc) == <<doc.document, doc.article>>

\* the fused score is a float in the code; it is kept here as the exact
\* fraction num/den, which orders the same way for sums of a few 1/(k+rank+1)
\* the accumulation as it would be if a second contribution replaced a smaller
\* score instead of being added to it; the monotonicity property
\* C14_BothListsScoreHigher tells the two apart
FracAdd_larger(f, c) ==
  IF f.num * c >= f.den THEN f ELSE [num |-> 1, den |-> c]
FracAdd(f, c) ==
  [num |-> f.num * c + f.den, den |-> f.den * c]
FracGT(f, g) == f.num * g.den > g.num * f.den
FracEQ(f, g) == f.num * g.den = g.num * f.den

\* one of the two accumulation loops of hybrid_search: doc_scores is the dict,
\* kept as the sequence of its values in insertion order
RECURSIVE rrf_accumulate(_, _, _, _)
rrf_accumulate(doc_scores, res, rank, src) ==
  IF res = <<>> THEN doc_scores
  ELSE
    LET r == Head(res)
        key == FuseKey(r.doc)
        present == {i \in 1..Len(doc_scores) : doc_scores[i].key = key}
        with_key == IF present = {}
                    THEN Append(doc_scores, [key |-> key, doc |-> r.doc,
                                             rrf |-> [num |-> 0, den |-> 1],
                                             src |-> {}])
                    ELSE doc_scores
        at == CHOOSE i \in 1..Len(with_key) : with_key[i].key = key
        updated == [with_key EXCEPT
                      ![at].rrf = FracAdd(@, RRF_K + rank + 1),
                      ![at].src = @ \cup {src}]
    IN  rrf_accumulate(updated, Tail(res), rank + 1, src)

\* the sort as it would be if equal scores came out in reverse insertion order;
\* the ordering property C13_FusedOrder tells the two apart
sorted_by_rrf_ties_reversed(doc_scores) ==
  LET before(i) == {j \in 1..Len(doc_scores) :
                      \/ FracGT(doc_scores[j].rrf, doc_scores[i].rrf)
                      \/ (FracEQ(doc_scores[j].rrf, doc_scores[i].rrf) /\ j > i)}
  IN  [p \in 1..Len(doc_scores) |->
         doc_scores[CHOOSE i \in 1..Len(doc_scores) : Cardinality(before(i)) = p - 1]]
\* sorted(doc_scores.values(), key=lambda x: x['rrf'], reverse=True): a stable
\* sort, so equal scores keep their insertion order
sorted_by_rrf(doc_scores) ==
  LET before(i) == {j \in 1..Len(doc_scores) :
                      \/ FracGT(doc_scores[j].rrf, doc_scores[i].rrf)
                      \/ (FracEQ(doc_scores[j].rrf, doc_scores[i].rrf) /\ j < i)}
  IN  [p \in 1..Len(doc_scores) |->
         doc_scores[CHOOSE i \in 1..Len(doc_scores) : Cardinality(before(i)) = p - 1]]

\* the two loops as they would be if the ranks of the semantic list went on
\* from the end of the lexical list; the symmetry property
\* C24_FusionSymmetric tells the two apart
rrf_scores_semantic_after(bm25_res, sem_res) ==
  rrf_accumulate(rrf_accumulate(<<>>, bm25_res, 0, "BM25"), sem_res,
                 Len(bm25_res), "Semantic")
\* the fusion part of hybrid_search: the dict after both loops
rrf_scores(bm25_res, sem_res) ==
  rrf_accumulate(rrf_accumulate(<<>>, bm25_res, 0, "BM25"), sem_res, 0, "Semantic")

\* the fusion as it would be without the dict: the two lists one after the
\* other, cut at n_results; the property C12_FusedDistinctAndSized tells the
\* two apart
rrf_fuse_concat(bm25_res, sem_res, n_results) ==
  LET sorted_res == FirstN(bm25_res \o sem_res, n_results)
  IN  [i \in 1..Len(sorted_res) |-> sorted_res[i].doc]
\* the fusion part of hybrid_search: final
rrf_fuse(bm25_res, sem_res, n_results) ==
  LET sorted_res == FirstN(sorted_by_rrf(rrf_scores(bm25_res, sem_res)), n_results)
  IN  [i \in 1..Len(sorted_res) |-> sorted_res[i].doc]

(***************************************************************************)
(* Conversation state, prompt and the decisions of generate_response       *)
(***************************************************************************)

\* the questions the chat window sends in the system specification
\* "weather"
Q_weather == <<119,101,97,116,104,101,114>>
\* "weather \u0627\u0644\u0637\u0642\u0633"
Q_weather_ar == <<119,101,97,116,104,101,114,32,1575,1604,1591,1602,1587>>
\* "What is a qualified investor?" (ui.py:1510, a sidebar example)
Q_investor == <<87,104,97,116,32,105,115,32,97,32,113,117,97,108,105,102,105,101,100,32,105,110,118,101,115,116,111,114,63>>
\* "What are the licensing fees for finance companies?" (ui.py:1507, a sidebar
\* example)
Q_fees == <<87,104,97,116,32,97,114,101,32,116,104,101,32,108,105,99,101,110,115,105,110,103,32,102,101,101,115,32,102,111,114,32,102,105,110,97,110,99,101,32,99,111,109,112,97,110,105,101,115,63>>
\* "\u0645\u0627 \u0647\u064A \u0627\u0644\u0635\u0643\u0648\u0643\u061F"
Q_sukuk_ar == <<1605,1575,32,1607,1610,32,1575,1604,1589,1603,1608,1603,1567>>

\* the questions of the sidebar examples, which send() takes from data-q
Examples == {Q_investor, Q_fees}

Questions == {Q_weather, Q_weather_ar, Q_sukuk_ar} \cup Examples

\* the fixed texts of the backend, by their first words (the Arabic literals
\* of the source as they are stored in the file)
\* "I apologize"
REFUSAL_EN == <<73,32,97,112,111,108,111,103,105,122,101>>
\* "\u00FF\u03C0\u00FF\u00B0\u00FF\u00B1\u00FF\u00DF\u0178\u00E3"
REFUSAL_AR == <<255,960,255,176,255,177,255,223,376,227>>
\* "No relevant information found."
NO_INFO_EN == <<78,111,32,114,101,108,101,118,97,110,116,32,105,110,102,111,114,109,97,116,105,111,110,32,102,111,117,110,100,46>>
\* "\u0178\u00D1\u0178\u00D6 \u0178\u00E4\u00FF\u2122\u0178\u00D6"
NO_INFO_AR == <<376,209,376,214,32,376,228,255,8482,376,214>>
\* "System not initialized"
NOT_INITIALIZED == <<83,121,115,116,101,109,32,110,111,116,32,105,110,105,116,105,97,108,105,122,101,100>>
\* "Article 1 says"
LLM_TEXT == <<65,114,116,105,99,108,101,32,49,32,115,97,121,115>>

\* the texts ollama.generate may answer with, after strip()
LLMTexts == {LLM_TEXT}

\* the message built by ChatHistory.add_message; 'sources' and 'regulator' are
\* keys of the dict only when the argument is truthy (the timestamp is left out)
new_message(role, content, sources, regulator) ==
  IF sources # <<>> /\ regulator # ""
  THEN [role |-> role, content |-> content, sources |-> sources,
        regulator |-> regulator]
  ELSE IF sources # <<>>
  THEN [role |-> role, content |-> content, sources |-> sources]
  ELSE IF regulator # ""
  THEN [role |-> role, content |-> content, regulator |-> regulator]
  ELSE [role |-> role, content |-> content]

\* the default limit of get_conversation_context
CONTEXT_LIMIT == 6

\* get_conversation_context as it would be if it took the oldest turns; the
\* follow-up property C7_FollowUpContext tells the two apart
get_conversation_context_oldest(messages, limit) ==
  IF messages # <<>> THEN FirstN(messages, limit) ELSE <<>>

\* ChatHistory.get_conversation_context
get_conversation_context(messages, limit) ==
  IF messages # <<>> THEN LastN(messages, limit) ELSE <<>>

\* the "Previous conversation" lines of build_prompt: at most the last 4 turns,
\* each content cut to 500 characters
conv_lines(conversation_context) ==
  LET last == LastN(conversation_context, 4)
  IN  [i \in 1..Len(last) |->
         [role |-> IF last[i].role = "user" THEN "User" ELSE "Assistant",
          content |-> FirstN(last[i].content, 500)]]

\* TadqeeqRAG.build_prompt: the template chosen, the document block and the
\* conversation block that are substituted into it
build_prompt(query, docs, language, is_followup, conversation_context) ==
  [template |-> IF language = "ar"
                THEN (IF is_followup THEN "ar_follow_up" ELSE "ar_question")
                ELSE (IF is_followup THEN "en_follow_up" ELSE "en_question"),
   ctx |-> [i \in 1..Len(docs) |->
              [n |-> i, document |-> docs[i].document,
               article |-> docs[i].article, text |-> docs[i].text]],
   conv_context |-> IF is_followup /\ conversation_context # <<>>
                    THEN conv_lines(conversation_context) ELSE <<>>,
   question |-> query]

\* the templates of build_prompt that contain a previous-conversation section
HasPreviousConversation(prompt) ==
  prompt.template \in {"ar_follow_up", "en_follow_up"}

\* TadqeeqRAG.build_out_of_domain_response
build_out_of_domain_response(language) ==
  IF language = "ar" THEN REFUSAL_AR ELSE REFUSAL_EN

\* the no-information result of generate_response
no_results_response(lang, reg) ==
  [answer |-> IF lang = "en" THEN NO_INFO_EN ELSE NO_INFO_AR,
   sources |-> <<>>, regulator |-> reg]

\* the sources comprehension of generate_response: one entry per article label
\* not seen before
\* the source list as it would be if a source were told apart by document
\* and article; the property C30_SourcesByArticle tells the two apart
RECURSIVE sources_of_by_key(_, _)
sources_of_by_key(docs, seen) ==
  IF docs = <<>> THEN <<>>
  ELSE IF FuseKey(Head(docs)) \notin seen
       THEN << [article |-> Head(docs).article, document |-> Head(docs).document] >>
            \o sources_of_by_key(Tail(docs), seen \cup {FuseKey(Head(docs))})
  ELSE sources_of_by_key(Tail(docs), seen)

RECURSIVE sources_of(_, _)
sources_of(docs, seen) ==
  IF docs = <<>> THEN <<>>
  ELSE IF Head(docs).article \notin seen
       THEN << [article |-> Head(docs).article, document |-> Head(docs).document] >>
            \o sources_of(Tail(docs), seen \cup {Head(docs).article})
  ELSE sources_of(Tail(docs), seen)

\* the result of generate_response after a successful LLM call
llm_response(text, docs, reg) ==
  [answer |-> text, sources |-> sources_of(docs, {}), regulator |-> reg]

(***************************************************************************)
(* hybrid_search and generate_response                                     *)
(***************************************************************************)

\* defaults of bm25_search / semantic_search and of hybrid_search
TOP_K == 15
N_RESULTS == 3

\* the query handed to the retrievers by hybrid_search, and force_english
hybrid_expanded(query) ==
  IF detect_language(query) = "ar"
  THEN expand_query(translate_arabic_query(query), "en")
  ELSE expand_query(query, detect_language(query))

\* the flag as it would be if the lists were searched in the user's language
hybrid_force_english_never(query) ==
  FALSE
\* force_english=True is passed on the Arabic branch only
hybrid_force_english(query) ==
  detect_language(query) = "ar"

\* TadqeeqRAG.hybrid_search for given answers of the two indexes: scores and
\* order from the lexical index, ranking and the two success flags from the
\* vector index. calls lists the calls made.
hybrid_search(docs, query, scores, order, ranking, filtered_ok, unfiltered_ok, n_results) ==
  LET user_language == detect_language(query)
      regulator == detect_regulator(query)
      expanded == hybrid_expanded(query)
      force == hybrid_force_english(query)
      bm25_res == bm25_search(docs, expanded, scores, order, regulator,
                              user_language, TOP_K, force)
      sem == semantic_search(ranking, filtered_ok, unfiltered_ok, regulator,
                             user_language, TOP_K, force)
  IN  [raised |-> sem.raised,
       final |-> IF sem.raised THEN <<>>
                 ELSE rrf_fuse(bm25_res, sem.output, n_results),
       regulator |-> regulator,
       user_language |-> user_language,
       calls |-> << "hybrid_search", "bm25_search" >>
                 \o (IF Tokenize(expanded) # <<>> THEN << "get_scores" >> ELSE <<>>)
                 \o << "semantic_search", "collection.query" >>
                 \o (IF ~filtered_ok THEN << "collection.query" >> ELSE <<>>)]

\* the result of a call that has not returned
NoResult == [answer |-> <<>>, sources |-> <<>>, regulator |-> ""]

\* what ollama.generate does: it answers with a text, or it raises
LLMOutcomes ==
  {[ok |-> TRUE, text |-> t] : t \in LLMTexts} \cup {[ok |-> FALSE, text |-> <<>>]}

\* the calls of generate_response whose absence the out-of-domain path promises
RetrievalCalls ==
  {"hybrid_search", "bm25_search", "get_scores", "semantic_search",
   "collection.query"}
LLMCalls == {"build_prompt", "ollama.generate"}

\* generate_response as it would be if the domain test came after the read of
\* the conversation and after retrieval; the short-circuit property
\* C1_OutOfDomainShortCircuit tells the two apart
generate_response_late_guard(query, messages, h, llm) ==
  LET lang == detect_language(query)
      is_followup == is_follow_up(query)
      conversation_context ==
        IF is_followup THEN get_conversation_context(messages, CONTEXT_LIMIT)
        ELSE <<>>
      calls1 == << "detect_language", "is_follow_up" >>
                \o (IF is_followup THEN << "get_conversation_context" >> ELSE <<>>)
                \o h.calls
  IN  IF h.raised
      THEN [raised |-> TRUE, result |-> NoResult, is_followup |-> is_followup,
            conversation_context |-> conversation_context,
            docs |-> <<>>, prompt |-> <<>>, calls |-> calls1]
      ELSE IF is_out_of_domain(query)
      THEN [raised |-> FALSE,
            result |-> [answer |-> build_out_of_domain_response(lang),
                        sources |-> <<>>, regulator |-> "NONE"],
            is_followup |-> is_followup,
            conversation_context |-> conversation_context,
            docs |-> <<>>, prompt |-> <<>>,
            calls |-> calls1 \o << "is_out_of_domain",
                                   "build_out_of_domain_response" >>]
      ELSE IF h.final = <<>>
      THEN [raised |-> FALSE,
            result |-> no_results_response(h.user_language, h.regulator),
            is_followup |-> is_followup,
            conversation_context |-> conversation_context,
            docs |-> <<>>, prompt |-> <<>>,
            calls |-> calls1 \o << "is_out_of_domain" >>]
      ELSE [raised |-> ~llm.ok,
            result |-> IF llm.ok
                       THEN llm_response(llm.text, h.final, h.regulator)
                       ELSE NoResult,
            is_followup |-> is_followup,
            conversation_context |-> conversation_context,
            docs |-> h.final,
            prompt |-> << build_prompt(query, h.final, h.user_language,
                                       is_followup, conversation_context) >>,
            calls |-> calls1 \o << "is_out_of_domain", "build_prompt",
                                   "ollama.generate" >>]

\* TadqeeqRAG.generate_response. messages is chat_history.current_messages
\* when the call runs, h what hybrid_search does and llm what ollama.generate
\* does. calls lists the calls made, in order; raised says that an exception
\* left the function; conversation_context = <<>> stands for None as well.
generate_response(query, messages, h, llm) ==
  LET lang == detect_language(query)
  IN  IF is_out_of_domain(query)
      THEN [raised |-> FALSE,
            result |-> [answer |-> build_out_of_domain_response(lang),
                        sources |-> <<>>, regulator |-> "NONE"],
            is_followup |-> FALSE, conversation_context |-> <<>>,
            docs |-> <<>>, prompt |-> <<>>,
            calls |-> << "detect_language", "is_out_of_domain",
                         "build_out_of_domain_response" >>]
      ELSE
        LET is_followup == is_follow_up(query)
            conversation_context ==
              IF is_followup THEN get_conversation_context(messages, CONTEXT_LIMIT)
              ELSE <<>>
            calls1 == << "detect_language", "is_out_of_domain", "is_follow_up" >>
                      \o (IF is_followup THEN << "get_conversation_context" >>
                          ELSE <<>>)
                      \o h.calls
        IN  IF h.raised
            THEN [raised |-> TRUE, result |-> NoResult,
                  is_followup |-> is_followup,
                  conversation_context |-> conversation_context,
                  docs |-> <<>>, prompt |-> <<>>, calls |-> calls1]
            ELSE IF h.final = <<>>
            THEN [raised |-> FALSE,
                  result |-> no_results_response(h.user_language, h.regulator),
                  is_followup |-> is_followup,
                  conversation_context |-> conversation_context,
                  docs |-> <<>>, prompt |-> <<>>, calls |-> calls1]
            ELSE
              LET prompt == build_prompt(query, h.final, h.user_language,
                                         is_followup, conversation_context)
                  calls2 == calls1 \o << "build_prompt", "ollama.generate" >>
              IN  [raised |-> ~llm.ok,
                   result |-> IF llm.ok
                              THEN llm_response(llm.text, h.final, h.regulator)
                              ELSE NoResult,
                   is_followup |-> is_followup,
                   conversation_context |-> conversation_context,
                   docs |-> h.final, prompt |-> << prompt >>, calls |-> calls2]

(***************************************************************************)
(* The running system: the chat window (ui.py), the API object, the        *)
(* initialization thread and the threads that serve the calls of the       *)
(* window (pywebview runs every js_api call on a thread of its own)        *)
(***************************************************************************)

\* API.query calls that can be in progress at the same time
MaxThreads == 2
\* questions sent in one run
MaxQueries == 2
\* chat ids handed out by new_chat in one run
MaxChats == 2
\* clicks on "new chat", a chat of the history, its delete button, or a file
\* dropped on the window, in one run
MaxUiOps == 1
\* turns a chat holds before the question, in the specification of
\* generate_response
MaxHistory == 7

Procs == 1..MaxThreads
\* the ids new_chat hands out, in order, and the id of a chat log that is
\* under CHAT_HISTORY_PATH when the program starts
ChatIds == 1..MaxChats
StoredChat == MaxChats + 1
AllChats == ChatIds \cup {StoredChat}
\* current_chat_id = None
NoChat == 0

\* the artifacts loaded by TadqeeqRAG.initialize: the document list and the
\* vector collection built from it
SysDocuments == << DocUniverse[2], DocUniverse[3], DocUniverse[4] >>
SysCollection == SysDocuments
\* the scores and index answers tried in the system specification
SysScoreVals == {0, 1}

\* the answers of the vector index tried in the system specification
SysRankings(coll) == {r \in Rankings(coll) : \A i \in 1..Len(r) : r[i].dist = 0}

\* the results hybrid_search can have for a query, over the answers of the
\* two indexes
hybrid_results(docs, coll, query) ==
  UNION { UNION { { hybrid_search(docs, query, scores, order, ranking,
                                  filtered_ok, unfiltered_ok, N_RESULTS) :
                      ranking \in SysRankings(coll),
                      filtered_ok \in BOOLEAN, unfiltered_ok \in BOOLEAN } :
                  order \in ArgsortDesc(scores) } :
          scores \in [1..Len(docs) -> SysScoreVals] }

\* hybrid_results of the loaded artifacts, tabulated once per question
SysHybridResults ==
  { << q, hybrid_results(SysDocuments, SysCollection, q) >> : q \in Questions }

loaded_hybrid_results(docs, coll, query) ==
  IF docs = SysDocuments /\ coll = SysCollection /\ query \in Questions
  THEN (CHOOSE t \in SysHybridResults : t[1] = query)[2]
  ELSE hybrid_results(docs, coll, query)

\* the turns of four earlier exchanges: an answer with its source, a
\* no-information result, a refusal and an answer in a follow-up
History ==
  << new_message("user", Q_investor, <<>>, ""),
     new_message("assistant", LLM_TEXT,
                 sources_of(<< DocUniverse[2] >>, {}), "CMA"),
     new_message("user", Q_fees, <<>>, ""),
     new_message("assistant", NO_INFO_EN, <<>>, "SAMA"),
     new_message("user", Q_weather, <<>>, ""),
     new_message("assistant", REFUSAL_EN, <<>>, "NONE"),
     new_message("user", Q_sukuk_ar, <<>>, ""),
     new_message("assistant", LLM_TEXT,
                 sources_of(<< DocUniverse[2], DocUniverse[3] >>, {}), "BOTH") >>

\* the chat log of an earlier run: three exchanges
StoredHistory == FirstN(History, 6)

VARIABLES
  ready,             \* ui.py: let ready
  busy,              \* ui.py: let busy
  input_disabled,    \* ui.py: input.disabled
  analysis,          \* ui.py: the window is in document-analysis mode
  init_started,      \* API._init_started
  rag,               \* API.rag is not None
  initpc,            \* position of the initialization thread
  initialized,       \* TadqeeqRAG._initialized
  init_error,        \* TadqeeqRAG._init_error ("None" or its type)
  loaded,            \* the attributes of the engine that are not None
  documents,         \* TadqeeqRAG.documents
  collection,        \* TadqeeqRAG.collection
  has_document, reports,      \* DocumentProcessor.current_text is set
  current_chat_id,   \* ChatHistory.current_chat_id
  current_messages,  \* ChatHistory.current_messages
  files,             \* the chat logs under CHAT_HISTORY_PATH, by chat id
  next_id,           \* the next fresh id of new_chat
  sent,              \* questions sent so far
  ui_ops,            \* clicks and drops counted by MaxUiOps so far
  pc,                \* position of each API.query thread
  question,          \* argument of each API.query call
  frame,             \* local variables of each API.query / generate_response
  late_threads,      \* positions of the initialization threads started
                     \* while one had been started already
  call               \* the function application of the function specifications

vars == << ready, busy, input_disabled, analysis, init_started, rag, initpc,
           initialized, init_error, loaded, documents, collection, has_document, reports,
           current_chat_id, current_messages, files, next_id, sent, ui_ops,
           pc, question, frame, call, late_threads >>

uiVars == << ready, busy, input_disabled, analysis >>
initVars == << init_started, rag, initpc, initialized, init_error, loaded,
               documents, collection, late_threads >>
chatVars == << current_chat_id, current_messages, files, next_id >>
threadVars == << pc, question, frame >>

NoCall == [op |-> "none"]

\* generate_response has not run
NoOutcome ==
  [raised |-> FALSE, result |-> NoResult, is_followup |-> FALSE,
   conversation_context |-> <<>>, docs |-> <<>>, prompt |-> <<>>,
   calls |-> <<>>]

\* the locals of a call before it runs: out is what generate_response did,
\* read the turn list it was given; user_chat and assistant_chat record the
\* value of current_chat_id when the call appended its two turns
EmptyFrame ==
  [out |-> NoOutcome, read |-> <<>>,
   user_turns |-> 0, assistant_turns |-> 0,
   user_chat |-> NoChat, assistant_chat |-> NoChat]

NoFile == [exists |-> FALSE, messages |-> <<>>]

SysInit ==
  /\ ready = FALSE /\ busy = FALSE /\ input_disabled = TRUE /\ analysis = FALSE
  /\ init_started = FALSE /\ rag = FALSE /\ initpc = "not_started"
  /\ initialized = FALSE /\ init_error = "None" /\ loaded = {}
  /\ documents = <<>> /\ collection = <<>> /\ has_document = FALSE
  /\ reports = {}
  /\ current_chat_id = NoChat /\ current_messages = <<>>
  /\ files = [c \in AllChats |->
                IF c = StoredChat
                THEN [exists |-> TRUE, messages |-> StoredHistory] ELSE NoFile]
  /\ next_id = 1 /\ sent = 0 /\ ui_ops = 0
  /\ pc = [p \in Procs |-> "idle"]
  /\ question = [p \in Procs |-> <<>>]
  /\ frame = [p \in Procs |-> EmptyFrame]
  /\ late_threads = <<>>

Init == SysInit /\ call = NoCall

\* API.get_init_status: the 'status' of the dictionary it returns
get_init_status ==
  IF initialized /\ rag THEN "ready"
  ELSE IF init_error # "None" THEN "error"
  ELSE "loading"

(***************************************************************************)
(* Initialization: API.initialize / start_initialization and the           *)
(* background thread that runs TadqeeqRAG.initialize                       *)
(***************************************************************************)

\* the stages of TadqeeqRAG.initialize that can fail, in order
InitStages == << "ollama_check", "ollama_start", "documents", "bm25",
                 "embeddings", "chromadb", "helpers" >>

StageIndex(st) == CHOOSE i \in 1..Len(InitStages) : InitStages[i] = st

\* init() of the window calls API.initialize, which calls
\* start_initialization when it has not been started
StartInitialization ==
  /\ ~init_started
  /\ init_started' = TRUE
  /\ initpc' = "spawned"
  /\ UNCHANGED << uiVars, rag, initialized, init_error, loaded, documents,
                  collection, has_document, reports, chatVars, sent, ui_ops,
                  threadVars, call, late_threads >>

\* init_background: self.rag = TadqeeqRAG.get_instance()
InitBackground ==
  /\ initpc = "spawned"
  /\ rag' = TRUE
  /\ initpc' = InitStages[1]
  /\ UNCHANGED << uiVars, init_started, initialized, init_error, loaded,
                  documents, collection, has_document, reports, chatVars, sent, ui_ops,
                  threadVars, call, late_threads >>

\* one stage of TadqeeqRAG.initialize succeeds; the last one sets _initialized
InitStageOk ==
  /\ initpc \in {InitStages[i] : i \in 1..Len(InitStages)}
  /\ LET i == StageIndex(initpc)
     IN  /\ initpc' = IF i < Len(InitStages) THEN InitStages[i + 1] ELSE "done"
         /\ loaded' = IF initpc \in {"documents", "bm25", "embeddings",
                                     "chromadb", "helpers"}
                      THEN loaded \cup {initpc} ELSE loaded
         /\ documents' = IF initpc = "documents" THEN SysDocuments ELSE documents
         /\ collection' = IF initpc = "chromadb" THEN SysCollection ELSE collection
         /\ initialized' = (initialized \/ i = Len(InitStages))
  /\ UNCHANGED << uiVars, init_started, rag, init_error, has_document, reports,
                  chatVars, sent, ui_ops, threadVars, call, late_threads >>

\* a stage that records its error and goes on to the next stage
InitStageFail_continues ==
  /\ initpc \in {InitStages[i] : i \in 1..Len(InitStages)}
  /\ init_error' = IF initpc \in {"ollama_check", "ollama_start"}
                   THEN "ollama_not_installed" ELSE "init_error"
  /\ LET i == StageIndex(initpc)
     IN  /\ initpc' = IF i < Len(InitStages) THEN InitStages[i + 1] ELSE "done"
         /\ initialized' = (initialized \/ i = Len(InitStages))
  /\ UNCHANGED << uiVars, init_started, rag, loaded, documents,
                  collection, has_document, reports, chatVars, sent, ui_ops,
                  threadVars, call, late_threads >>

\* one stage fails: Ollama is not installed, or loading raises and the except
\* clause records the error; initialize returns False
InitStageFail ==
  /\ initpc \in {InitStages[i] : i \in 1..Len(InitStages)}
  /\ init_error' = IF initpc \in {"ollama_check", "ollama_start"}
                   THEN "ollama_not_installed" ELSE "init_error"
  /\ initpc' = "failed"
  /\ UNCHANGED << uiVars, init_started, rag, initialized, loaded, documents,
                  collection, has_document, reports, chatVars, sent, ui_ops,
                  threadVars, call, late_threads >>

(***************************************************************************)
(* ChatHistory                                                             *)
(***************************************************************************)

\* ChatHistory._save_current applied to the new message list
saved_files(fs, chat_id, messages) ==
  IF chat_id = NoChat THEN fs
  ELSE [fs EXCEPT ![chat_id] = [exists |-> TRUE, messages |-> messages]]

\* ChatHistory.add_message: append, then _save_current
add_message(msg) ==
  /\ current_messages' = Append(current_messages, msg)
  /\ files' = saved_files(files, current_chat_id, Append(current_messages, msg))
  /\ UNCHANGED << current_chat_id, next_id >>

\* ChatHistory.load_chat: the stored log of chat c becomes the active session
\* when the file exists
load_chat(c) ==
  /\ IF files[c].exists
     THEN /\ current_chat_id' = c
          /\ current_messages' = files[c].messages
     ELSE UNCHANGED << current_chat_id, current_messages >>
  /\ UNCHANGED << files, next_id >>

\* the list that ChatHistory.load_chat returns
load_chat_result(c) ==
  IF files[c].exists THEN files[c].messages ELSE <<>>

\* ChatHistory.delete_chat that leaves the active session as it is
delete_chat_keeps_session(c) ==
  /\ files' = [files EXCEPT ![c] = NoFile]
  /\ UNCHANGED << current_chat_id, current_messages, next_id >>

\* ChatHistory.delete_chat: the file is removed when it exists, and the
\* active session is emptied when it is the deleted one
delete_chat(c) ==
  /\ IF files[c].exists
     THEN /\ files' = [files EXCEPT ![c] = NoFile]
          /\ IF current_chat_id = c
             THEN current_chat_id' = NoChat /\ current_messages' = <<>>
             ELSE UNCHANGED << current_chat_id, current_messages >>
     ELSE UNCHANGED << files, current_chat_id, current_messages >>
  /\ UNCHANGED next_id

\* the value that ChatHistory.delete_chat returns
delete_chat_result(c) ==
  files[c].exists

\* API.new_chat: doc_processor.clear(), then ChatHistory.new_chat
new_chat ==
  /\ current_chat_id' = next_id
  /\ current_messages' = <<>>
  /\ next_id' = next_id + 1
  /\ has_document' = FALSE
  /\ reports' = reports

(***************************************************************************)
(* The chat window                                                         *)
(***************************************************************************)

\* init() after pollProgress reports 'ready': ready = true, the input is
\* enabled and newChat(false) calls API.new_chat
UiReady ==
  /\ initialized /\ rag /\ ~ready
  /\ next_id <= MaxChats
  /\ ready' = TRUE
  /\ input_disabled' = FALSE
  /\ new_chat
  /\ UNCHANGED << busy, analysis, initVars, files, sent, ui_ops, threadVars, call >>

\* send(): refused while busy or not ready; otherwise busy = true, the input
\* is disabled and API.query(q) starts on a thread. A question is typed into
\* the input, or it is the data-q of a sidebar example.
Send(p, q) ==
  /\ ready /\ ~busy /\ ~analysis
  /\ q \in Examples \/ ~input_disabled
  /\ sent < MaxQueries
  /\ pc[p] = "idle"
  /\ \A r \in Procs : pc[r] = "idle" => p <= r
  /\ busy' = TRUE
  /\ input_disabled' = TRUE
  /\ sent' = sent + 1
  /\ pc' = [pc EXCEPT ![p] = "query"]
  /\ question' = [question EXCEPT ![p] = q]
  /\ frame' = [frame EXCEPT ![p] = EmptyFrame]
  /\ UNCHANGED << ready, analysis, initVars, has_document, reports, chatVars, ui_ops, call >>

\* the tail of send() after the awaited call returned or threw: busy = false
\* and the input is enabled
SendDone(p) ==
  /\ pc[p] \in {"returned", "raised"}
  /\ busy' = FALSE
  /\ input_disabled' = FALSE
  /\ pc' = [pc EXCEPT ![p] = "idle"]
  /\ question' = [question EXCEPT ![p] = <<>>]
  /\ frame' = [frame EXCEPT ![p] = EmptyFrame]
  /\ UNCHANGED << ready, analysis, initVars, has_document, reports, chatVars, sent,
                  ui_ops, call >>

\* newChat(true) -> API.new_chat
NewChat ==
  /\ ready /\ ~analysis /\ rag
  /\ ui_ops < MaxUiOps
  /\ next_id <= MaxChats
  /\ new_chat
  /\ ui_ops' = ui_ops + 1
  /\ UNCHANGED << uiVars, initVars, files, sent, threadVars, call >>

\* the keydown listener of the document: Ctrl+N -> newChat(true) ->
\* API.new_chat, while the window is not ready (the loading overlay does not
\* stop the listener). API.new_chat tests self.rag only: it returns the error
\* before init_background has set self.rag, raises AttributeError at
\* self.rag.doc_processor.clear() while the helper objects are None, and
\* starts a chat once they exist; newChat catches what is thrown.
ShortcutNewChat ==
  /\ ~ready
  /\ ui_ops < MaxUiOps
  /\ ui_ops' = ui_ops + 1
  /\ IF ~rag
     THEN /\ call' = [op |-> "new_chat", initialized |-> initialized,
                      raised |-> FALSE,
                      result |-> [error |-> NOT_INITIALIZED]]
          /\ UNCHANGED << chatVars, has_document, reports >>
     ELSE IF "helpers" \notin loaded
     THEN /\ call' = [op |-> "new_chat", initialized |-> initialized,
                      raised |-> TRUE, result |-> NoResult]
          /\ UNCHANGED << chatVars, has_document, reports >>
     ELSE /\ next_id <= MaxChats
          /\ call' = [op |-> "new_chat", initialized |-> initialized,
                      raised |-> FALSE, result |-> [id |-> next_id]]
          /\ new_chat
          /\ UNCHANGED files
  /\ UNCHANGED << uiVars, initVars, sent, threadVars >>

\* loadChat(id) of a chat of the history list -> API.load_chat ->
\* ChatHistory.load_chat
LoadChat(c) ==
  /\ ready /\ ~analysis /\ rag
  /\ ui_ops < MaxUiOps
  /\ files[c].exists
  /\ current_chat_id' = c
  /\ current_messages' = files[c].messages
  /\ ui_ops' = ui_ops + 1
  /\ UNCHANGED << uiVars, initVars, has_document, reports, files, next_id, sent,
                  threadVars, call >>

\* deleteChat(id) of a chat of the history list -> API.delete_chat ->
\* ChatHistory.delete_chat, and newChat(true) when it was the current chat
DeleteChat(c) ==
  /\ ready /\ ~analysis /\ rag
  /\ ui_ops < MaxUiOps
  /\ files[c].exists
  /\ files' = [files EXCEPT ![c] = NoFile]
  /\ IF current_chat_id = c
     THEN /\ next_id <= MaxChats
          /\ new_chat
     ELSE UNCHANGED << current_chat_id, current_messages, next_id, has_document, reports >>
  /\ ui_ops' = ui_ops + 1
  /\ UNCHANGED << uiVars, initVars, sent, threadVars, call >>

\* handleFile -> API.upload_document succeeds -> enterAnalysisMode; nothing
\* in handleFile looks at busy
EnterAnalysisMode ==
  /\ ready /\ rag /\ ~analysis
  /\ ui_ops < MaxUiOps
  /\ has_document' = TRUE
  /\ analysis' = TRUE
  /\ ui_ops' = ui_ops + 1
  /\ UNCHANGED << ready, busy, input_disabled, initVars, chatVars, sent,
                  threadVars, call, reports >>

\* exitAnalysisMode: busy = false, API.clear_document, back to the chat
ExitAnalysisMode ==
  /\ analysis
  /\ busy' = FALSE
  /\ has_document' = FALSE
  /\ analysis' = FALSE
  /\ UNCHANGED << ready, input_disabled, initVars, chatVars, sent, ui_ops,
                  threadVars, call, reports >>

(***************************************************************************)
(* API.query, one thread per call                                          *)
(***************************************************************************)

\* API.query up to the call of generate_response: the check of self.rag and
\* chat_history.add_message('user', question)
QueryStart(p) ==
  /\ pc[p] = "query"
  /\ IF ~rag
     THEN /\ pc' = [pc EXCEPT ![p] = "returned"]
          /\ frame' = [frame EXCEPT ![p].out.result = [error |-> NOT_INITIALIZED]]
          /\ UNCHANGED chatVars
     ELSE IF "helpers" \notin loaded
     THEN \* self.rag.chat_history is None: AttributeError
          /\ pc' = [pc EXCEPT ![p] = "raised"]
          /\ UNCHANGED << frame, chatVars >>
     ELSE /\ add_message(new_message("user", question[p], <<>>, ""))
          /\ pc' = [pc EXCEPT ![p] = "generate"]
          /\ frame' = [frame EXCEPT ![p].user_turns = @ + 1,
                                    ![p].user_chat = current_chat_id]
  /\ UNCHANGED << uiVars, initVars, has_document, reports, sent, ui_ops, question, call >>

\* result = self.rag.generate_response(question), for one of the answers the
\* two indexes and the LLM can give. The function touches shared state once,
\* when it reads the turn list; an exception it raises leaves API.query.
GenerateResponse(p) ==
  /\ pc[p] = "generate"
  /\ \E h \in loaded_hybrid_results(documents, collection, question[p]),
        llm \in LLMOutcomes :
       LET out == generate_response(question[p], current_messages, h, llm)
       IN  /\ frame' = [frame EXCEPT ![p].out = out,
                                     ![p].read = current_messages]
           /\ pc' = [pc EXCEPT ![p] = IF out.raised THEN "raised" ELSE "respond"]
  /\ UNCHANGED << uiVars, initVars, has_document, reports, chatVars, sent, ui_ops,
                  question, call >>

\* the end of API.query as it would be if the answered question were added to
\* the corpus; the frame property C22_IndexesImmutable tells the two apart
QueryRespond_indexes_question(p) ==
  /\ pc[p] = "respond"
  /\ add_message(new_message("assistant", frame[p].out.result.answer,
                             frame[p].out.result.sources,
                             frame[p].out.result.regulator))
  /\ documents' = Append(documents, Doc("q", "", "", "", "en"))
  /\ frame' = [frame EXCEPT ![p].assistant_turns = @ + 1,
                            ![p].assistant_chat = current_chat_id]
  /\ pc' = [pc EXCEPT ![p] = "returned"]
  /\ UNCHANGED << uiVars, init_started, rag, initpc, initialized, init_error,
                  loaded, collection, late_threads, has_document, reports,
                  sent, ui_ops, question, call >>

\* API.query after generate_response returned:
\* chat_history.add_message('assistant', answer, sources, regulator)
QueryRespond(p) ==
  /\ pc[p] = "respond"
  /\ add_message(new_message("assistant", frame[p].out.result.answer,
                             frame[p].out.result.sources,
                             frame[p].out.result.regulator))
  /\ frame' = [frame EXCEPT ![p].assistant_turns = @ + 1,
                            ![p].assistant_chat = current_chat_id]
  /\ pc' = [pc EXCEPT ![p] = "returned"]
  /\ UNCHANGED << uiVars, initVars, has_document, reports, sent, ui_ops, question, call >>

Next ==
  \/ StartInitialization
  \/ InitBackground
  \/ InitStageOk
  \/ InitStageFail
  \/ UiReady
  \/ \E p \in Procs, q \in Questions : Send(p, q)
  \/ \E p \in Procs : SendDone(p)
  \/ NewChat
  \/ ShortcutNewChat
  \/ \E c \in AllChats : LoadChat(c)
  \/ \E c \in AllChats : DeleteChat(c)
  \/ EnterAnalysisMode
  \/ ExitAnalysisMode
  \/ \E p \in Procs : QueryStart(p)
  \/ \E p \in Procs : GenerateResponse(p)
  \/ \E p \in Procs : QueryRespond(p)

Spec == Init /\ [][Next]_vars

(***************************************************************************)
(* generate_response on its own: one API.query call that has appended its  *)
(* user turn, in a chat that holds any number of earlier turns             *)
(***************************************************************************)

\* the window has sent question q on the first thread and API.query has
\* appended the user turn; the chat is a fresh one, or the chat of an earlier
\* run that was loaded with k turns
InitGenerate ==
  \E q \in Questions, k \in 0..MaxHistory :
    LET chat == IF k = 0 THEN 1 ELSE StoredChat
        turns == FirstN(History, k) \o << new_message("user", q, <<>>, "") >>
    IN  /\ ready = TRUE /\ busy = TRUE /\ input_disabled = TRUE
        /\ analysis = FALSE
        /\ init_started = TRUE /\ rag = TRUE /\ initpc = "done"
        /\ initialized = TRUE /\ init_error = "None"
        /\ loaded = {"documents", "bm25", "embeddings", "chromadb", "helpers"}
        /\ documents = SysDocuments /\ collection = SysCollection
        /\ has_document = FALSE /\ reports = {}
        /\ current_chat_id = chat /\ current_messages = turns
        /\ files = [c \in AllChats |->
                      IF c = chat THEN [exists |-> TRUE, messages |-> turns]
                      ELSE IF c = StoredChat
                      THEN [exists |-> TRUE, messages |-> StoredHistory]
                      ELSE NoFile]
        /\ next_id = 2 /\ sent = 1 /\ ui_ops = IF k = 0 THEN 0 ELSE 1
        /\ pc = [p \in Procs |-> IF p = 1 THEN "generate" ELSE "idle"]
        /\ question = [p \in Procs |-> IF p = 1 THEN q ELSE <<>>]
        /\ frame = [p \in Procs |->
                      IF p = 1 THEN [EmptyFrame EXCEPT !.user_turns = 1,
                                                       !.user_chat = chat]
                      ELSE EmptyFrame]
        /\ call = NoCall
        /\ late_threads = <<>>

NextGenerate == \E p \in Procs : GenerateResponse(p)

SpecGenerate == InitGenerate /\ [][NextGenerate]_vars

(***************************************************************************)
(* The start of the program: the initialization thread, the window that    *)
(* polls it, and the questions sent once the window is ready               *)
(***************************************************************************)

NextInit ==
  \/ StartInitialization
  \/ InitBackground
  \/ InitStageOk
  \/ InitStageFail
  \/ UiReady
  \/ ShortcutNewChat
  \/ \E p \in Procs, q \in Questions : Send(p, q)
  \/ \E p \in Procs : SendDone(p)
  \/ \E p \in Procs : QueryStart(p)
  \/ \E p \in Procs : GenerateResponse(p)
  \/ \E p \in Procs : QueryRespond(p)

SpecInit == Init /\ [][NextInit]_vars

(***************************************************************************)
(* API.initialize and API.start_initialization called on js_api threads:   *)
(* pywebview runs every call of a js_api method on a thread of its own     *)
(***************************************************************************)

StartMethods == {"initialize", "start_initialization"}

\* the number of background threads that start_initialization has started
init_threads == (IF initpc = "not_started" THEN 0 ELSE 1) + Len(late_threads)

\* what a call of API.initialize or API.start_initialization returned
returned_status(p, status) ==
  [frame EXCEPT ![p].out.result = [status |-> status]]

\* a thread enters API.initialize or API.start_initialization
CallStart(p, m) ==
  /\ pc[p] = "idle"
  /\ pc' = [pc EXCEPT ![p] = m]
  /\ UNCHANGED << uiVars, initVars, has_document, reports, chatVars, sent, ui_ops,
                  question, frame, call >>

\* API.initialize: if not self._init_started: self.start_initialization()
InitializeTest(p) ==
  /\ pc[p] = "initialize"
  /\ pc' = [pc EXCEPT ![p] = IF init_started THEN "initialize_poll"
                             ELSE "initialize_start"]
  /\ UNCHANGED << uiVars, initVars, has_document, reports, chatVars, sent, ui_ops,
                  question, frame, call >>

\* start_initialization, called by the window or by API.initialize:
\* if self._init_started: return {'status': 'already_started'}
StartTest(p) ==
  /\ pc[p] \in {"start_initialization", "initialize_start"}
  /\ IF init_started
     THEN IF pc[p] = "start_initialization"
          THEN /\ pc' = [pc EXCEPT ![p] = "returned"]
               /\ frame' = returned_status(p, "already_started")
          ELSE /\ pc' = [pc EXCEPT ![p] = "initialize_poll"]
               /\ UNCHANGED frame
     ELSE /\ pc' = [pc EXCEPT ![p] = IF pc[p] = "start_initialization"
                                     THEN "start_set" ELSE "initialize_set"]
          /\ UNCHANGED frame
  /\ UNCHANGED << uiVars, initVars, has_document, reports, chatVars, sent, ui_ops,
                  question, call >>

\* start_initialization after the test: self._init_started = True, the
\* background thread is created and started, return {'status': 'started'}
StartSet(p) ==
  /\ pc[p] \in {"start_set", "initialize_set"}
  /\ init_started' = TRUE
  /\ IF initpc = "not_started"
     THEN initpc' = "spawned" /\ UNCHANGED late_threads
     ELSE late_threads' = Append(late_threads, "spawned") /\ UNCHANGED initpc
  /\ IF pc[p] = "start_set"
     THEN /\ pc' = [pc EXCEPT ![p] = "returned"]
          /\ frame' = returned_status(p, "started")
     ELSE /\ pc' = [pc EXCEPT ![p] = "initialize_poll"]
          /\ UNCHANGED frame
  /\ UNCHANGED << uiVars, rag, initialized, init_error, loaded, documents,
                  collection, has_document, reports, chatVars, sent, ui_ops, question,
                  call >>

\* the loop of API.initialize: it returns get_init_status() once _initialized
\* or _init_error is set, and the timeout error when 120 s have passed
InitializePoll(p) ==
  /\ pc[p] = "initialize_poll"
  /\ pc' = [pc EXCEPT ![p] = "returned"]
  /\ \/ /\ initialized \/ init_error # "None"
        /\ frame' = returned_status(p, get_init_status)
     \/ frame' = returned_status(p, "error")
  /\ UNCHANGED << uiVars, initVars, has_document, reports, chatVars, sent, ui_ops,
                  question, call >>

\* init_background on a thread that was started after another one:
\* self.rag = TadqeeqRAG.get_instance(), the singleton
LateInitBackground(i) ==
  /\ i \in DOMAIN late_threads
  /\ late_threads[i] = "spawned"
  /\ rag' = TRUE
  /\ late_threads' = [late_threads EXCEPT ![i] = InitStages[1]]
  /\ UNCHANGED << uiVars, init_started, initpc, initialized, init_error,
                  loaded, documents, collection, has_document, reports, chatVars, sent,
                  ui_ops, threadVars, call >>

\* a stage of TadqeeqRAG.initialize succeeds on such a thread
LateInitStageOk(i) ==
  /\ i \in DOMAIN late_threads
  /\ late_threads[i] \in {InitStages[k] : k \in 1..Len(InitStages)}
  /\ LET st == late_threads[i]
         k == StageIndex(st)
     IN  /\ late_threads' =
               [late_threads EXCEPT ![i] = IF k < Len(InitStages)
                                           THEN InitStages[k + 1] ELSE "done"]
         /\ loaded' = IF st \in {"documents", "bm25", "embeddings",
                                 "chromadb", "helpers"}
                      THEN loaded \cup {st} ELSE loaded
         /\ documents' = IF st = "documents" THEN SysDocuments ELSE documents
         /\ collection' = IF st = "chromadb" THEN SysCollection ELSE collection
         /\ initialized' = (initialized \/ k = Len(InitStages))
  /\ UNCHANGED << uiVars, init_started, rag, initpc, init_error, has_document, reports,
                  chatVars, sent, ui_ops, threadVars, call >>

\* a stage of TadqeeqRAG.initialize fails on such a thread
LateInitStageFail(i) ==
  /\ i \in DOMAIN late_threads
  /\ late_threads[i] \in {InitStages[k] : k \in 1..Len(InitStages)}
  /\ init_error' = IF late_threads[i] \in {"ollama_check", "ollama_start"}
                   THEN "ollama_not_installed" ELSE "init_error"
  /\ late_threads' = [late_threads EXCEPT ![i] = "failed"]
  /\ UNCHANGED << uiVars, init_started, rag, initpc, initialized, loaded,
                  documents, collection, has_document, reports, chatVars, sent, ui_ops,
                  threadVars, call >>

NextStart ==
  \/ \E p \in Procs, m \in StartMethods : CallStart(p, m)
  \/ \E p \in Procs : InitializeTest(p)
  \/ \E p \in Procs : StartTest(p)
  \/ \E p \in Procs : StartSet(p)
  \/ \E p \in Procs : InitializePoll(p)
  \/ InitBackground
  \/ InitStageOk
  \/ InitStageFail
  \/ \E i \in 1..MaxThreads : LateInitBackground(i)
  \/ \E i \in 1..MaxThreads : LateInitStageOk(i)
  \/ \E i \in 1..MaxThreads : LateInitStageFail(i)

SpecStart == Init /\ [][NextStart]_vars

(***************************************************************************)
(* The ChatHistory object on its own: its methods called one after another *)
(***************************************************************************)

MaxAppends == 2

\* turns given to add_message: a question, and an answer with sources
Turns == {History[3], History[8]}

\* the active session and the stored logs
history_state ==
  [current_chat_id |-> current_chat_id, current_messages |-> current_messages,
   files |-> files]

HistoryNewChat ==
  /\ next_id <= MaxChats
  /\ call' = [op |-> "new_chat", chat_id |-> next_id, before |-> history_state,
              result |-> next_id]
  /\ new_chat
  /\ UNCHANGED << uiVars, initVars, files, sent, ui_ops, threadVars >>

HistoryLoadChat(c) ==
  /\ call' = [op |-> "load_chat", chat_id |-> c, before |-> history_state,
              result |-> load_chat_result(c)]
  /\ load_chat(c)
  /\ UNCHANGED << uiVars, initVars, has_document, reports, sent, ui_ops, threadVars >>

HistoryDeleteChat(c) ==
  /\ call' = [op |-> "delete_chat", chat_id |-> c, before |-> history_state,
              result |-> delete_chat_result(c)]
  /\ delete_chat(c)
  /\ UNCHANGED << uiVars, initVars, has_document, reports, sent, ui_ops, threadVars >>

HistoryAddMessage(msg) ==
  /\ sent < MaxAppends
  /\ sent' = sent + 1
  /\ call' = [op |-> "add_message", chat_id |-> current_chat_id,
              before |-> history_state, result |-> msg]
  /\ add_message(msg)
  /\ UNCHANGED << uiVars, initVars, has_document, reports, ui_ops, threadVars >>

NextHistory ==
  \/ HistoryNewChat
  \/ \E c \in AllChats : HistoryLoadChat(c)
  \/ \E c \in AllChats : HistoryDeleteChat(c)
  \/ \E msg \in Turns : HistoryAddMessage(msg)

SpecHistory == Init /\ [][NextHistory]_vars

(***************************************************************************)
(* The methods of the API called on an initialized engine                  *)
(***************************************************************************)

MaxApiOps == 3

\* the state when init() of the window has finished: the engine is loaded
\* and newChat(false) has started the first chat
InitApi ==
  /\ ready = TRUE /\ busy = FALSE /\ input_disabled = FALSE
  /\ analysis = FALSE
  /\ init_started = TRUE /\ rag = TRUE /\ initpc = "done"
  /\ initialized = TRUE /\ init_error = "None"
  /\ loaded = {"documents", "bm25", "embeddings", "chromadb", "helpers"}
  /\ documents = SysDocuments /\ collection = SysCollection
  /\ late_threads = <<>>
  /\ has_document = FALSE /\ reports = {}
  /\ current_chat_id = 1 /\ current_messages = <<>>
  /\ files = [c \in AllChats |->
                IF c = StoredChat
                THEN [exists |-> TRUE, messages |-> StoredHistory] ELSE NoFile]
  /\ next_id = 2 /\ sent = 0 /\ ui_ops = 0
  /\ pc = [p \in Procs |-> "idle"]
  /\ question = [p \in Procs |-> <<>>]
  /\ frame = [p \in Procs |-> EmptyFrame]
  /\ call = NoCall

\* API.query(q) is called and runs on the first thread
ApiCallQuery(q) ==
  /\ sent + ui_ops < MaxApiOps
  /\ pc[1] = "idle"
  /\ sent' = sent + 1
  /\ pc' = [pc EXCEPT ![1] = "query"]
  /\ question' = [question EXCEPT ![1] = q]
  /\ frame' = [frame EXCEPT ![1] = EmptyFrame]
  /\ UNCHANGED << uiVars, initVars, has_document, reports, chatVars, ui_ops,
                  call >>

\* the thread of a call that has returned or raised ends
ApiReturn(p) ==
  /\ pc[p] \in {"returned", "raised"}
  /\ pc' = [pc EXCEPT ![p] = "idle"]
  /\ question' = [question EXCEPT ![p] = <<>>]
  /\ frame' = [frame EXCEPT ![p] = EmptyFrame]
  /\ UNCHANGED << uiVars, initVars, has_document, reports, chatVars, sent,
                  ui_ops, call >>

\* API.new_chat
ApiNewChat ==
  /\ sent + ui_ops < MaxApiOps
  /\ next_id <= MaxChats
  /\ ui_ops' = ui_ops + 1
  /\ call' = [op |-> "new_chat"]
  /\ new_chat
  /\ UNCHANGED << uiVars, initVars, files, sent, threadVars >>

\* API.load_chat(c)
ApiLoadChat(c) ==
  /\ sent + ui_ops < MaxApiOps
  /\ ui_ops' = ui_ops + 1
  /\ call' = [op |-> "load_chat"]
  /\ load_chat(c)
  /\ UNCHANGED << uiVars, initVars, has_document, reports, sent, threadVars >>

\* API.delete_chat(c)
ApiDeleteChat(c) ==
  /\ sent + ui_ops < MaxApiOps
  /\ ui_ops' = ui_ops + 1
  /\ call' = [op |-> "delete_chat"]
  /\ delete_chat(c)
  /\ UNCHANGED << uiVars, initVars, has_document, reports, sent, threadVars >>

\* API.upload_document: process_file sets current_text, or returns an error
\* before it has
ApiUploadDocument ==
  /\ sent + ui_ops < MaxApiOps
  /\ ui_ops' = ui_ops + 1
  /\ call' = [op |-> "upload_document"]
  /\ \E ok \in BOOLEAN : has_document' = (has_document \/ ok)
  /\ UNCHANGED << uiVars, initVars, reports, chatVars, sent, threadVars >>

\* API.clear_document
ApiClearDocument ==
  /\ sent + ui_ops < MaxApiOps
  /\ ui_ops' = ui_ops + 1
  /\ call' = [op |-> "clear_document"]
  /\ has_document' = FALSE
  /\ UNCHANGED << uiVars, initVars, reports, chatVars, sent, threadVars >>

\* API.run_compliance_check: an error without a document; otherwise the
\* result of check_compliance is kept, unless the check raises
ApiRunComplianceCheck ==
  /\ sent + ui_ops < MaxApiOps
  /\ ui_ops' = ui_ops + 1
  /\ call' = [op |-> "run_compliance_check"]
  /\ IF ~has_document THEN UNCHANGED reports
     ELSE \E ok \in BOOLEAN :
            reports' = IF ok THEN reports \cup {"compliance"} ELSE reports
  /\ UNCHANGED << uiVars, initVars, has_document, chatVars, sent, threadVars >>

\* API.generate_brief -> generate_executive_brief: an error without a
\* document or when a step fails; otherwise last_brief is set
ApiGenerateBrief ==
  /\ sent + ui_ops < MaxApiOps
  /\ ui_ops' = ui_ops + 1
  /\ call' = [op |-> "generate_brief"]
  /\ IF ~has_document THEN UNCHANGED reports
     ELSE \E ok \in BOOLEAN :
            reports' = IF ok THEN reports \cup {"brief"} ELSE reports
  /\ UNCHANGED << uiVars, initVars, has_document, chatVars, sent, threadVars >>

NextApi ==
  \/ \E q \in Examples : ApiCallQuery(q)
  \/ \E p \in Procs : QueryStart(p)
  \/ \E p \in Procs : GenerateResponse(p)
  \/ \E p \in Procs : QueryRespond(p)
  \/ \E p \in Procs : ApiReturn(p)
  \/ ApiNewChat
  \/ \E c \in AllChats : ApiLoadChat(c)
  \/ \E c \in AllChats : ApiDeleteChat(c)
  \/ ApiUploadDocument
  \/ ApiClearDocument
  \/ ApiRunComplianceCheck
  \/ ApiGenerateBrief

SpecApi == InitApi /\ [][NextApi]_vars

(***************************************************************************)
(* The two retrievers as functions: one application per behaviour, its     *)
(* arguments drawn from the bounded sets above, the rest of the system     *)
(* left as constructed                                                     *)
(***************************************************************************)

sysVars == << ready, busy, input_disabled, analysis, init_started, rag, initpc,
              initialized, init_error, loaded, documents, collection,
              has_document, reports, current_chat_id, current_messages, files, next_id,
              sent, ui_ops, pc, question, frame, late_threads >>

Regulators == {"SAMA", "CMA", "BOTH"}
Languages == {"en", "ar"}

\* "?!": a query without a token
Q_punct == <<63,33>>

\* self.bm25_search(query, regulator, language, top_k, force_english) on an
\* engine whose corpus is docs and whose lexical index answers with scores;
\* the index is read from its own file and may have been built from a corpus
\* that was longer by up to MaxExtra documents
CallBm25Search ==
  /\ call = NoCall
  /\ \E docs \in Corpora(MaxDocs), extra \in 0..MaxExtra,
        query \in {Q_weather, Q_punct}, regulator \in Regulators,
        language \in Languages, force_english \in BOOLEAN, top_k \in 1..MaxTopK :
       \E scores \in [1..(Len(docs) + extra) -> ScoreVals] :
         \E order \in ArgsortDesc(scores) :
           LET scored == Tokenize(query) # <<>>
           IN  call' = [op |-> "bm25_search", docs |-> docs, query |-> query,
                        scored |-> scored,
                        scores |-> IF scored THEN scores ELSE <<>>,
                        order |-> IF scored THEN order ELSE <<>>,
                        regulator |-> regulator, language |-> language,
                        force_english |-> force_english, top_k |-> top_k,
                        result |-> bm25_search(docs, query, scores, order,
                                               regulator, language, top_k,
                                               force_english)]
  /\ UNCHANGED sysVars

SpecBM25 == Init /\ [][CallBm25Search]_vars

\* self.semantic_search(query, regulator, language, top_k, force_english) on
\* an engine whose collection answers the embedded query with ranking
CallSemanticSearch ==
  /\ call = NoCall
  /\ \E coll \in Corpora(MaxDocs), regulator \in Regulators,
        language \in Languages, force_english \in BOOLEAN, top_k \in 1..MaxTopK,
        filtered_ok \in BOOLEAN, unfiltered_ok \in BOOLEAN :
       \E ranking \in Rankings(coll) :
         LET r == semantic_search(ranking, filtered_ok, unfiltered_ok,
                                  regulator, language, top_k, force_english)
         IN  call' = [op |-> "semantic_search", ranking |-> ranking,
                      filtered_ok |-> filtered_ok,
                      unfiltered_ok |-> unfiltered_ok,
                      regulator |-> regulator, language |-> language,
                      force_english |-> force_english, top_k |-> top_k,
                      raised |-> r.raised, result |-> r.output]
  /\ UNCHANGED sysVars

SpecSem == Init /\ [][CallSemanticSearch]_vars

\* index sequences into DocUniverse of at most n documents, no two with the
\* same (document, article): both retrievers keep one language, and the
\* chunker keeps one chunk per article of a document
KeySeqs(n) ==
  {s \in UNION {[1..m -> 1..Len(DocUniverse)] : m \in 0..n} :
     \A i, j \in 1..Len(s) :
       i # j => FuseKey(DocUniverse[s[i]]) # FuseKey(DocUniverse[s[j]])}

\* the lists bm25_search may hand to the fusion: positive scores, best first
Bm25Lists(n) ==
  {[i \in 1..Len(s) |-> [doc |-> DocUniverse[s[i]], score |-> Len(s) - i + 1,
                          source |-> "bm25"]] : s \in KeySeqs(n)}

\* the lists semantic_search may hand to the fusion: nearest first
SemLists(n) ==
  {[i \in 1..Len(s) |-> [doc |-> DocUniverse[s[i]],
                          score |-> [num |-> 1, den |-> 1 + i],
                          source |-> "semantic"]] : s \in KeySeqs(n)}

\* the fusion part of self.hybrid_search(query, n_results) for given results
\* of the two retrievers
CallFuse ==
  /\ call = NoCall
  /\ \E bm25_res \in Bm25Lists(MaxTopK), sem_res \in SemLists(MaxTopK),
        n_results \in 1..MaxNResults :
       call' = [op |-> "fuse", bm25_res |-> bm25_res, sem_res |-> sem_res,
                n_results |-> n_results,
                doc_scores |-> rrf_scores(bm25_res, sem_res),
                final |-> rrf_fuse(bm25_res, sem_res, n_results)]
  /\ UNCHANGED sysVars

SpecFuse == Init /\ [][CallFuse]_vars

\* the fusion on lists as long as the retrievers return them
MaxCommon == 2

\* the i-th of the distinct articles of one document
RankedDoc(i) == Doc("t", ToString(i), "CMA_Funds", "CMA", "en")

\* a lexical list of n candidates: articles 1..n, best first
RankedBm25(n) ==
  [i \in 1..n |-> [doc |-> RankedDoc(i), score |-> n - i + 1,
                   source |-> "bm25"]]

\* a semantic list of n candidates: at its ranks b+1..b+c the articles that
\* are at the ranks a+1..a+c of the lexical list, elsewhere articles that the
\* lexical list does not have
RankedSem(n, c, a, b) ==
  [j \in 1..n |-> [doc |-> IF j \in (b + 1)..(b + c)
                           THEN RankedDoc(a + (j - b)) ELSE RankedDoc(n + j),
                   score |-> [num |-> 1, den |-> 1 + j],
                   source |-> "semantic"]]

\* the fusion part of self.hybrid_search(query, n_results) when the two
\* retrievers return n candidates each, c of them in both lists
CallFuseRanked ==
  /\ call = NoCall
  /\ \E n \in {MaxTopK, TOP_K}, c \in 1..MaxCommon,
        n_results \in {N_RESULTS, 2 * TOP_K} :
       /\ c <= n
       /\ \E a \in 0..(n - c), b \in 0..(n - c) :
            LET bm25_res == RankedBm25(n)
                sem_res == RankedSem(n, c, a, b)
            IN  call' = [op |-> "fuse", bm25_res |-> bm25_res,
                         sem_res |-> sem_res, n_results |-> n_results,
                         doc_scores |-> rrf_scores(bm25_res, sem_res),
                         final |-> rrf_fuse(bm25_res, sem_res, n_results)]
  /\ UNCHANGED sysVars

SpecRanks == Init /\ [][CallFuseRanked]_vars

(***************************************************************************)
(* The pure functions of the query on their own                            *)
(***************************************************************************)

\* the string of n characters c
Rep(c, n) == [i \in 1..n |-> c]

\* n copies of the two-character string w, one after the other
Rep2(w, n) == [i \in 1..(2 * n) |-> w[2 - (i % 2)]]

\* texts for detect_language: some characters of the Arabic block (its first
\* and its last code point) and some characters outside it (the code points
\* next to the block, a space, a letter, a question mark)
LangTexts ==
  {Rep(a, n) \o Rep(o, m) :
     a \in {1536, 1791}, o \in {1535, 1792, 32, 97, 63},
     n \in 0..MaxArabic, m \in 0..MaxOther}

\* self.detect_language(text)
CallDetectLanguage ==
  /\ call = NoCall
  /\ \E text \in LangTexts :
       call' = [op |-> "detect_language", text |-> text,
                result |-> detect_language(text)]
  /\ UNCHANGED sysVars

\* "Bank"
P_Bank == <<66,97,110,107>>
\* "SUKUK"
P_SUKUK == <<83,85,75,85,75>>
\* "licensing fees"
P_fees == <<108,105,99,101,110,115,105,110,103,32,102,101,101,115>>
\* "what"
P_what == <<119,104,97,116>>
\* "ok"
P_ok == <<111,107>>
\* "Yes"
P_Yes == <<89,101,115>>
\* "\u0633\u0627\u0645\u0627", the word whose bytes, read in another
\* encoding, are the first literal of sama_ar
P_sama_arabic == <<1587,1575,1605,1575>>

\* the phrases queries are put together from: English keywords in the case a
\* user may type them, literals of the Arabic tables, a word of no table
Pieces ==
  {P_Bank, P_SUKUK, P_fees, P_what, P_ok, P_Yes, P_sama_arabic,
   sama_ar[1], cma_ar[5], follow_up_ar[1]}

\* the queries of at most MaxPieces phrases, separated by one space
QueryTexts ==
  {JoinSpace(s) : s \in UNION {[1..m -> Pieces] : m \in 0..MaxPieces}}

\* self.detect_regulator(query)
CallDetectRegulator ==
  /\ call = NoCall
  /\ \E query \in QueryTexts :
       call' = [op |-> "detect_regulator", query |-> query,
                result |-> detect_regulator(query)]
  /\ UNCHANGED sysVars

\* self.translate_arabic_query(query)
CallTranslate ==
  /\ call = NoCall
  /\ \E query \in QueryTexts :
       call' = [op |-> "translate_arabic_query", query |-> query,
                result |-> translate_arabic_query(query)]
  /\ UNCHANGED sysVars

\* self.expand_query(query, lang)
CallExpand ==
  /\ call = NoCall
  /\ \E query \in QueryTexts, lang \in Languages :
       call' = [op |-> "expand_query", query |-> query, lang |-> lang,
                result |-> expand_query(query, lang)]
  /\ UNCHANGED sysVars

\* queries of k words of the letter q, n characters from the first to the
\* last of them, with or without whitespace around them, and the queries of
\* whitespace only
ShortTexts ==
  UNION {{lead \o Rep(113, n - 2 * (k - 1)) \o Rep2(<<32,113>>, k - 1) \o trail :
            n \in (2 * k - 1)..MaxChars,
            lead \in {<<>>, <<32>>, <<9>>}, trail \in {<<>>, <<32>>}} :
           k \in 1..MaxWords}
  \cup {Rep(32, m) : m \in 0..2}

\* self.is_follow_up(query)
CallIsFollowUp ==
  /\ call = NoCall
  /\ \E query \in QueryTexts \cup ShortTexts :
       call' = [op |-> "is_follow_up", query |-> query,
                result |-> is_follow_up(query)]
  /\ UNCHANGED sysVars

NextText ==
  \/ CallDetectLanguage
  \/ CallDetectRegulator
  \/ CallTranslate
  \/ CallExpand
  \/ CallIsFollowUp

SpecText == Init /\ [][NextText]_vars

(***************************************************************************)
(* hybrid_search as a whole, and the source list of generate_response      *)
(***************************************************************************)

\* P_sama_arabic followed by " sama": an Arabic query that names a regulator
Q_sama_ar == P_sama_arabic \o <<32,115,97,109,97>>

\* queries in both languages, with and without a regulator
HybridQueries == {P_ok, P_Bank, P_SUKUK, P_sama_arabic, Q_sama_ar}

\* self.hybrid_search(query, n_results) on an engine whose corpus and
\* collection hold docs, for the answers the two indexes can give; the
\* fallback query is made, and can fail, only when the filtered query failed
CallHybridSearch ==
  /\ call = NoCall
  /\ \E docs \in Corpora(MaxDocs), query \in HybridQueries,
        n_results \in 1..MaxNResults, filtered_ok \in BOOLEAN :
       \E scores \in [1..Len(docs) -> SysScoreVals],
          ranking \in SysRankings(docs),
          unfiltered_ok \in IF filtered_ok THEN {TRUE} ELSE BOOLEAN :
         \E order \in ArgsortDesc(scores) :
           LET h == hybrid_search(docs, query, scores, order, ranking,
                                  filtered_ok, unfiltered_ok, n_results)
           IN  call' = [op |-> "hybrid_search", docs |-> docs,
                        query |-> query, n_results |-> n_results,
                        raised |-> h.raised, final |-> h.final,
                        regulator |-> h.regulator,
                        user_language |-> h.user_language]
  /\ UNCHANGED sysVars

\* the lists of documents that hybrid_search returns to generate_response:
\* at most three, of the searched language, no two with the same key
RetrievedDocs ==
  {s \in UNION {[1..m -> {DocUniverse[i] : i \in 1..Len(DocUniverse)}] :
                  m \in 0..N_RESULTS} :
     /\ \A i \in 1..Len(s) : s[i].language = "en"
     /\ \A i, j \in 1..Len(s) : i # j => FuseKey(s[i]) # FuseKey(s[j])}

\* the source list that generate_response builds from the retrieved documents
CallSources ==
  /\ call = NoCall
  /\ \E docs \in RetrievedDocs :
       call' = [op |-> "sources", docs |-> docs,
                sources |-> sources_of(docs, {})]
  /\ UNCHANGED sysVars

NextHybrid ==
  \/ CallHybridSearch
  \/ CallSources

SpecHybrid == Init /\ [][NextHybrid]_vars

(***************************************************************************)
(* Properties of a query (Spec, SpecGenerate)                              *)
(***************************************************************************)

\* C1: for every query for which is_out_of_domain is true, generate_response
\* returns the refusal and makes no retrieval call (hybrid_search, lexical
\* scoring, vector-index query), does not read the conversation and does not
\* call the LLM; the result has sources = [] and regulator = 'NONE' and its
\* text is chosen by detect_language of the query, also when the query would
\* be classified as a follow-up.
C1_OutOfDomainShortCircuit ==
  \A p \in Procs :
    (frame[p].out.calls # <<>> /\ is_out_of_domain(question[p])) =>
      LET o == frame[p].out
          made == {o.calls[i] : i \in 1..Len(o.calls)}
      IN  /\ ~o.raised /\ pc[p] # "raised"
          /\ made \cap (RetrievalCalls \cup LLMCalls
                        \cup {"get_conversation_context"}) = {}
          /\ o.docs = <<>> /\ o.prompt = <<>>
          /\ o.result.sources = <<>> /\ o.result.regulator = "NONE"
          /\ o.result.answer = IF detect_language(question[p]) = "ar"
                               THEN REFUSAL_AR ELSE REFUSAL_EN

\* generate_response has returned for an out-of-domain question in Arabic that
\* is_follow_up would accept, in a chat that holds earlier turns
C1_Witness ==
  \E p \in Procs :
    /\ pc[p] = "respond" /\ frame[p].out.calls # <<>>
    /\ is_out_of_domain(question[p]) /\ is_follow_up(question[p])
    /\ detect_language(question[p]) = "ar"
    /\ Len(frame[p].read) > 1

\* C2: every call of generate_response ends in exactly one of three outcomes,
\* REFUSE (out-of-domain), NO_RESULTS, or hand-off to the LLM; the LLM is
\* called only if the query is not out-of-domain and hybrid_search returned a
\* document; with no document the result is the no-information message in the
\* detected language with sources = [] and the detected regulator, and no
\* prompt is built.
C2_ThreeOutcomes ==
  \A p \in Procs :
    frame[p].out.calls # <<>> =>
      LET o == frame[p].out
          made == {o.calls[i] : i \in 1..Len(o.calls)}
          refuse == /\ is_out_of_domain(question[p])
                    /\ ~o.raised /\ o.result.regulator = "NONE"
          handoff == "ollama.generate" \in made
          no_results == /\ ~o.raised /\ ~handoff /\ ~is_out_of_domain(question[p])
                        /\ o.result.answer =
                             (IF detect_language(question[p]) = "en"
                              THEN NO_INFO_EN ELSE NO_INFO_AR)
                        /\ o.result.sources = <<>>
                        /\ o.result.regulator = detect_regulator(question[p])
                        /\ o.prompt = <<>> /\ "build_prompt" \notin made
      IN  /\ Cardinality({k \in {"refuse", "no_results", "handoff"} :
                             \/ (k = "refuse" /\ refuse)
                             \/ (k = "no_results" /\ no_results)
                             \/ (k = "handoff" /\ handoff)}) = 1
          /\ handoff => (~is_out_of_domain(question[p]) /\ o.docs # <<>>)

\* C3: no exception crosses the public query boundary: API.query returns a
\* structured value for every question, also when the LLM call fails, when
\* the vector-index query fails and when the engine objects are not loaded.
C3_NoExceptionLeavesQuery ==
  \A p \in Procs : pc[p] # "raised" /\ ~frame[p].out.raised

\* C4: every API.query call appends exactly one user turn before the query is
\* processed and exactly one assistant turn after it, for refusals, no-results
\* and generated answers alike; so when no query is in progress the turn list
\* of a session started by new_chat alternates user, assistant and has even
\* length.
C4_OneUserOneAssistantTurn ==
  /\ \A p \in Procs :
       /\ pc[p] \in {"generate", "respond"} =>
            (frame[p].user_turns = 1 /\ frame[p].assistant_turns = 0)
       /\ pc[p] \in {"returned", "raised"} =>
            (frame[p].user_turns = 1 /\ frame[p].assistant_turns = 1)
  /\ ((\A p \in Procs : pc[p] = "idle") /\ current_chat_id \in ChatIds) =>
       /\ Len(current_messages) % 2 = 0
       /\ \A i \in 1..Len(current_messages) :
            current_messages[i].role = IF i % 2 = 1 THEN "user" ELSE "assistant"

\* C5: queries of one session are strictly serialized with respect to the
\* conversation state: no API.query call appends its user turn or reads the
\* follow-up context while another has appended its user turn and not yet its
\* assistant turn.
C5_QueriesSerialized ==
  Cardinality({p \in Procs : pc[p] \in {"generate", "respond"}}) <= 1

\* C6: the user turn and the assistant turn of one query are recorded in the
\* same chat session, for any interleaving of new_chat, load_chat or
\* delete_chat with a query that is in flight.
C6_TurnsInOneSession ==
  \A p \in Procs :
    frame[p].assistant_turns = 1 => frame[p].assistant_chat = frame[p].user_chat

\* C7: for a query that is not out-of-domain and is classified as a
\* follow-up, the last turns of the active session (at most 6, in order)
\* are read before retrieval runs, and when retrieval is non-empty the prompt
\* handed to the LLM has a previous-conversation section built from those
\* turns; for a query that is not classified as a follow-up the conversation
\* is never read and the prompt has no previous-conversation section.
C7_FollowUpContext ==
  \A p \in Procs :
    (frame[p].out.calls # <<>> /\ ~is_out_of_domain(question[p])) =>
      LET o == frame[p].out
          given == frame[p].read
          ctx == o.conversation_context
          reads == {i \in 1..Len(o.calls) : o.calls[i] = "get_conversation_context"}
          searches == {i \in 1..Len(o.calls) : o.calls[i] \in RetrievalCalls}
      IN  IF is_follow_up(question[p])
          THEN /\ Cardinality(reads) = 1
               /\ \A i \in reads, j \in searches : i < j
               /\ Len(ctx) = IF Len(given) < 6 THEN Len(given) ELSE 6
               /\ \A i \in 1..Len(ctx) : ctx[i] = given[Len(given) - Len(ctx) + i]
               /\ o.docs # <<>> =>
                    /\ o.prompt # <<>>
                    /\ HasPreviousConversation(o.prompt[1])
                    /\ LET lines == o.prompt[1].conv_context
                           n == IF Len(ctx) < 4 THEN Len(ctx) ELSE 4
                       IN  /\ Len(lines) = n
                           /\ \A i \in 1..n :
                                LET turn == ctx[Len(ctx) - n + i]
                                IN  /\ lines[i].role =
                                         (IF turn.role = "user" THEN "User"
                                          ELSE "Assistant")
                                    /\ lines[i].content = FirstN(turn.content, 500)
          ELSE /\ reads = {}
               /\ ctx = <<>>
               /\ o.docs # <<>> =>
                    /\ o.prompt # <<>>
                    /\ ~HasPreviousConversation(o.prompt[1])
                    /\ o.prompt[1].conv_context = <<>>

\* a follow-up question asked in a chat of more than six turns has retrieved
\* documents and its prompt has been handed to the LLM
C7_Witness ==
  \E p \in Procs :
    /\ pc[p] = "respond"
    /\ is_follow_up(question[p]) /\ ~is_out_of_domain(question[p])
    /\ Len(frame[p].read) > 6
    /\ frame[p].out.prompt # <<>>
    /\ Len(frame[p].out.prompt[1].conv_context) = 4

(***************************************************************************)
(* Properties of the retrievers (SpecBM25, SpecSem)                        *)
(***************************************************************************)

\* C8: for any corpus, query, regulator filter, language filter and
\* force_english flag, every candidate returned by bm25_search has language
\* equal to the effective search language ('en' if force_english, else the
\* language filter) and, when the regulator filter is not BOTH, regulator
\* equal to the filter.
C8_Bm25ResultsMatchFilters ==
  call.op = "bm25_search" =>
    LET search_lang == IF call.force_english THEN "en" ELSE call.language
    IN  \A i \in 1..Len(call.result) :
          /\ call.result[i].doc.language = search_lang
          /\ call.regulator # "BOTH" =>
               call.result[i].doc.regulator = call.regulator

\* a search for CMA documents with force_english and language 'ar' returned a
\* candidate and left out a document with a positive score that fails a filter
C8_Witness ==
  /\ call.op = "bm25_search"
  /\ call.force_english /\ call.language = "ar" /\ call.regulator = "CMA"
  /\ call.result # <<>>
  /\ \E j \in 1..Len(call.docs) :
       /\ call.scores[j] > 0
       /\ call.docs[j].language # "en" \/ call.docs[j].regulator # "CMA"

\* C9: bm25_search returns [] without scoring when the query yields no token;
\* otherwise it returns exactly the first top_k documents, in non-increasing
\* score order, among the corpus documents that pass the regulator and
\* language filters and have a strictly positive score: at most top_k
\* elements, none of score <= 0, and no eligible document that is left out
\* scores higher than one that is returned.
C9_Bm25FirstTopK ==
  call.op = "bm25_search" =>
    IF ~call.scored THEN call.result = <<>> /\ call.scores = <<>>
    ELSE
      LET search_lang == IF call.force_english THEN "en" ELSE call.language
          res == call.result
          eligible == {j \in 1..Len(call.docs) :
                         /\ call.regulator = "BOTH"
                            \/ call.docs[j].regulator = call.regulator
                         /\ call.docs[j].language = search_lang
                         /\ call.scores[j] > 0}
          returned == {j \in eligible : \E i \in 1..Len(res) :
                         res[i].doc = call.docs[j]}
          pos(j) == CHOOSE a \in 1..Len(call.order) : call.order[a] = j
      IN  /\ Len(res) <= call.top_k
          /\ Len(res) = IF Cardinality(eligible) < call.top_k
                        THEN Cardinality(eligible) ELSE call.top_k
          /\ Cardinality(returned) = Len(res)
          /\ \A i \in 1..Len(res) :
               /\ res[i].score > 0
               /\ \E j \in eligible :
                    res[i].doc = call.docs[j] /\ res[i].score = call.scores[j]
          /\ \A i, k \in 1..Len(res) : i < k => res[i].score >= res[k].score
          /\ \A j \in eligible \ returned, i \in 1..Len(res) :
               call.scores[j] <= res[i].score
          /\ \A j \in eligible \ returned, k \in returned : pos(k) < pos(j)

\* a scored search returned top_k candidates and left out an eligible document
\* with a lower positive score
C9_Witness ==
  /\ call.op = "bm25_search" /\ call.scored
  /\ Len(call.result) = call.top_k
  /\ \E j \in 1..Len(call.docs) :
       /\ call.scores[j] > 0
       /\ call.scores[j] < call.result[Len(call.result)].score
       /\ call.docs[j].language = call.result[1].doc.language
       /\ call.regulator = "BOTH"
       /\ \A i \in 1..Len(call.result) : call.result[i].doc # call.docs[j]

\* C10: every candidate returned by semantic_search matches the effective
\* search language and, when the regulator filter is not BOTH, the target
\* regulator, and the list has at most top_k elements, both when the
\* metadata-filtered index query succeeds and when the unfiltered fallback
\* query (with 2*top_k neighbours) is used.
C10_SemanticResultsMatchFilters ==
  (call.op = "semantic_search" /\ ~call.raised) =>
    LET search_lang == IF call.force_english THEN "en" ELSE call.language
    IN  /\ Len(call.result) <= call.top_k
        /\ \A i \in 1..Len(call.result) :
             /\ call.result[i].doc.language = search_lang
             /\ call.regulator # "BOTH" =>
                  call.result[i].doc.regulator = call.regulator

\* the filtered query failed and the fallback returned 2*top_k neighbours of
\* which the nearest fails the language filter and the second is returned
C10_Witness ==
  /\ call.op = "semantic_search" /\ ~call.raised
  /\ ~call.filtered_ok /\ call.unfiltered_ok
  /\ call.top_k = 1 /\ Len(call.ranking) >= 2 /\ Len(call.result) = 1
  /\ call.ranking[1].entry.language #
       (IF call.force_english THEN "en" ELSE call.language)
  /\ call.result[1].doc.text = call.ranking[2].entry.text

(***************************************************************************)
(* Properties of semantic_search's error handling (SpecSem)                *)
(***************************************************************************)

\* C11: whenever the metadata-filtered index query of semantic_search fails,
\* the call still returns a list (the unfiltered retry, filtered client-side):
\* no exception leaves semantic_search.
C11_FilteredFailureRecovered ==
  (call.op = "semantic_search" /\ ~call.filtered_ok) => ~call.raised

(***************************************************************************)
(* Properties of the rank fusion (SpecFuse)                                *)
(***************************************************************************)

\* C12: the fused result of hybrid_search holds no two documents with the same
\* (document, article) identity and has exactly min(n_results, number of
\* distinct (document, article) keys of the two input lists) elements; when
\* both lists are empty it is [].
C12_FusedDistinctAndSized ==
  call.op = "fuse" =>
    LET keys == {FuseKey(call.bm25_res[i].doc) : i \in 1..Len(call.bm25_res)}
                \cup {FuseKey(call.sem_res[i].doc) : i \in 1..Len(call.sem_res)}
        n == Cardinality(keys)
    IN  /\ Len(call.final) = (IF call.n_results < n THEN call.n_results ELSE n)
        /\ \A i, j \in 1..Len(call.final) :
             i # j => FuseKey(call.final[i]) # FuseKey(call.final[j])
        /\ \A i \in 1..Len(call.final) : FuseKey(call.final[i]) \in keys
        /\ (call.bm25_res = <<>> /\ call.sem_res = <<>>) => call.final = <<>>

\* the two lists share a document and hold more distinct keys than n_results
C12_Witness ==
  /\ call.op = "fuse" /\ Len(call.final) = call.n_results
  /\ \E i \in 1..Len(call.bm25_res), j \in 1..Len(call.sem_res) :
       FuseKey(call.bm25_res[i].doc) = FuseKey(call.sem_res[j].doc)
  /\ Len(call.doc_scores) > call.n_results
  /\ Len(call.bm25_res) + Len(call.sem_res) > Len(call.doc_scores)

\* C13: the score of a (document, article) key is the sum of 1/(60 + rank + 1)
\* over every list in which it appears at 0-based rank 'rank'; the fused list
\* is in non-increasing score order, keys with equal score are in insertion
\* order (lexical candidates in lexical rank order, then semantic-only
\* candidates in semantic rank order), no key left out would sort ahead of a
\* returned one, and each returned document is the one first inserted for its
\* key. Scores are compared as integers, multiplied by the product of the
\* denominators.
C13_FusedOrder ==
  call.op = "fuse" =>
    LET b == call.bm25_res
        s == call.sem_res
        all == b \o s
        N == IF Len(b) > Len(s) THEN Len(b) ELSE Len(s)
        P[n \in 0..N] == IF n = 0 THEN 1 ELSE P[n - 1] * (60 + n)
        W(pos) == P[N] \div (60 + pos)
        S(key) ==
          LET sb[n \in 0..Len(b)] ==
                IF n = 0 THEN 0
                ELSE sb[n - 1] + (IF FuseKey(b[n].doc) = key THEN W(n) ELSE 0)
              ss[n \in 0..Len(s)] ==
                IF n = 0 THEN 0
                ELSE ss[n - 1] + (IF FuseKey(s[n].doc) = key THEN W(n) ELSE 0)
          IN  sb[Len(b)] + ss[Len(s)]
        ins(key) == CHOOSE i \in 1..Len(all) :
                      /\ FuseKey(all[i].doc) = key
                      /\ \A j \in 1..(i - 1) : FuseKey(all[j].doc) # key
        ahead(k1, k2) == \/ S(k1) > S(k2)
                         \/ (S(k1) = S(k2) /\ ins(k1) < ins(k2))
        keys == {FuseKey(all[i].doc) : i \in 1..Len(all)}
        returned == {FuseKey(call.final[i]) : i \in 1..Len(call.final)}
    IN  /\ returned \subseteq keys
        /\ \A i, j \in 1..Len(call.final) :
             i < j => ahead(FuseKey(call.final[i]), FuseKey(call.final[j]))
        /\ \A i \in 1..Len(call.final) :
             /\ call.final[i] = all[ins(FuseKey(call.final[i]))].doc
             /\ \A k \in keys \ returned : ahead(FuseKey(call.final[i]), k)

\* a document found by both retrievers is returned ahead of one inserted
\* before it, and two documents of equal score, one lexical and one
\* semantic-only, are both returned
C13_Witness ==
  /\ call.op = "fuse" /\ Len(call.final) = 3
  /\ call.final[1] # call.doc_scores[1].doc
  /\ FracEQ(call.doc_scores[1].rrf, call.doc_scores[3].rrf)
  /\ call.doc_scores[1].src = {"BM25"} /\ call.doc_scores[3].src = {"Semantic"}
  /\ call.final[2] = call.doc_scores[1].doc
  /\ call.final[3] = call.doc_scores[3].doc

\* C14: a document that is in the lexical list at 0-based rank r1 and in the
\* semantic list at 0-based rank r2 has a fused score strictly greater than
\* 1/(60 + r1 + 1), its score from the lexical list alone, and strictly
\* greater than 1/(60 + r2 + 1), its score from the semantic list alone.
C14_BothListsScoreHigher ==
  call.op = "fuse" =>
    \A e \in 1..Len(call.doc_scores) :
      \A p1 \in 1..Len(call.bm25_res), p2 \in 1..Len(call.sem_res) :
        (/\ FuseKey(call.bm25_res[p1].doc) = call.doc_scores[e].key
         /\ FuseKey(call.sem_res[p2].doc) = call.doc_scores[e].key)
        => /\ call.doc_scores[e].rrf.num * (60 + p1) > call.doc_scores[e].rrf.den
           /\ call.doc_scores[e].rrf.num * (60 + p2) > call.doc_scores[e].rrf.den
           /\ call.doc_scores[e].src = {"BM25", "Semantic"}

\* a document is second in the lexical list and first in the semantic list
C14_Witness ==
  /\ call.op = "fuse" /\ Len(call.bm25_res) >= 2 /\ Len(call.sem_res) >= 1
  /\ FuseKey(call.bm25_res[2].doc) = FuseKey(call.sem_res[1].doc)
  /\ \E e \in 1..Len(call.doc_scores) :
       /\ call.doc_scores[e].key = FuseKey(call.sem_res[1].doc)
       /\ call.doc_scores[e].rrf = [num |-> 61 + 62, den |-> 62 * 61]

(***************************************************************************)
(* Properties of the pure functions of the query (SpecText)                *)
(***************************************************************************)

\* C16: detect_language returns 'ar' exactly when the number of characters in
\* U+0600..U+06FF is strictly greater than 30% of the number of all characters
\* of the text, and 'en' otherwise; at exactly 30% and for the empty string
\* it returns 'en'.
C16_DetectLanguageThreshold ==
  call.op = "detect_language" =>
    LET n == Cardinality({i \in 1..Len(call.text) :
                            call.text[i] >= 1536 /\ call.text[i] <= 1791})
    IN  /\ call.result \in {"ar", "en"}
        /\ call.result = "ar" <=> 10 * n > 3 * Len(call.text)
        /\ call.text = <<>> => call.result = "en"

\* a text of ten characters of which exactly three are in the Arabic block,
\* the others being spaces
C16_Witness ==
  /\ call.op = "detect_language" /\ call.result = "en"
  /\ Len(call.text) = 10
  /\ Cardinality({i \in 1..10 : call.text[i] = 1791}) = 3
  /\ Cardinality({i \in 1..10 : call.text[i] = 32}) = 7

\* C17: detect_regulator returns exactly one of SAMA, CMA, BOTH for every
\* query: SAMA iff a SAMA keyword and no CMA keyword occurs as a substring,
\* CMA iff a CMA keyword and no SAMA keyword occurs, BOTH iff keywords of both
\* regulators or of neither occur; the English keywords are looked up in the
\* lowercased query and the Arabic keywords in the query as given.
C17_DetectRegulator ==
  call.op = "detect_regulator" =>
    LET sama == \/ \E i \in 1..Len(sama_en) : Contains(Lower(call.query), sama_en[i])
                \/ \E i \in 1..Len(sama_ar) : Contains(call.query, sama_ar[i])
        cma == \/ \E i \in 1..Len(cma_en) : Contains(Lower(call.query), cma_en[i])
               \/ \E i \in 1..Len(cma_ar) : Contains(call.query, cma_ar[i])
    IN  /\ call.result \in {"SAMA", "CMA", "BOTH"}
        /\ call.result = "SAMA" <=> (sama /\ ~cma)
        /\ call.result = "CMA" <=> (cma /\ ~sama)
        /\ call.result = "BOTH" <=> ((sama /\ cma) \/ (~sama /\ ~cma))

\* a query with an English SAMA keyword typed with a capital letter, next to a
\* word of no table, is routed to SAMA
C17_Witness ==
  /\ call.op = "detect_regulator" /\ call.result = "SAMA"
  /\ call.query = P_what \o <<32>> \o P_Bank

\* C18 as claimed: when a table phrase is a substring of the input, the output
\* of translate_arabic_query consists only of the English phrases of the
\* matching entries, in table order, joined by spaces, and the input text is
\* not part of it; when no phrase matches, the output is the input.
C18_BridgeDropsInput ==
  call.op = "translate_arabic_query" =>
    LET n == Len(translations)
        hit(i) == Contains(call.query, translations[i][1])
        en[i \in 0..n] ==
          IF i = 0 THEN <<>>
          ELSE IF ~hit(i) THEN en[i - 1]
          ELSE IF en[i - 1] = <<>> THEN translations[i][2]
          ELSE en[i - 1] \o <<32>> \o translations[i][2]
    IN  IF \E i \in 1..n : hit(i)
        THEN call.result = en[n] /\ ~Contains(call.result, call.query)
        ELSE call.result = call.query

\* C18, amended: when a table phrase is a substring of the input, the output
\* of translate_arabic_query is the input unchanged, followed by a space and
\* the English phrase of each matching entry, in table order; when no phrase
\* matches, the output is the input unchanged.
C18_BridgeAppendsPhrases ==
  call.op = "translate_arabic_query" =>
    LET n == Len(translations)
        result[i \in 0..n] ==
          IF i = 0 THEN call.query
          ELSE IF Contains(call.query, translations[i][1])
               THEN result[i - 1] \o <<32>> \o translations[i][2]
          ELSE result[i - 1]
    IN  call.result = result[n]

\* a query of two table phrases, the later entry of the table typed first: the
\* output is longer than the query and starts with it
C18_Witness ==
  /\ call.op = "translate_arabic_query"
  /\ call.query = sama_ar[1] \o <<32>> \o cma_ar[5]
  /\ Len(call.result) > Len(call.query)
  /\ FirstN(call.result, Len(call.query)) = call.query

\* C19: expand_query returns the query in its original case followed by a
\* space and the expansions, joined by spaces and in table order, of every
\* trigger phrase that is a substring of the lowercased query; when no
\* trigger matches it returns the query unchanged; the query is always a
\* prefix of the result.
C19_ExpandKeepsQuery ==
  call.op = "expand_query" =>
    LET n == Len(mappings)
        hit(i) == Contains(Lower(call.query), mappings[i][1])
        joined[i \in 0..n] ==
          IF i = 0 THEN <<>>
          ELSE IF ~hit(i) THEN joined[i - 1]
          ELSE IF \E j \in 1..(i - 1) : hit(j)
               THEN joined[i - 1] \o <<32>> \o mappings[i][2]
          ELSE mappings[i][2]
    IN  /\ IF \E i \in 1..n : hit(i)
           THEN call.result = call.query \o <<32>> \o joined[n]
           ELSE call.result = call.query
        /\ Len(call.result) >= Len(call.query)
        /\ \A i \in 1..Len(call.query) : call.result[i] = call.query[i]

\* a query with a trigger typed in capitals and a phrase that holds two
\* triggers: three expansions follow the query as typed
C19_Witness ==
  /\ call.op = "expand_query"
  /\ call.query = P_SUKUK \o <<32>> \o P_fees
  /\ call.result = call.query \o <<32>> \o mappings[1][2] \o <<32>>
                     \o mappings[4][2] \o <<32>> \o mappings[5][2]

\* C20: is_follow_up(query) is true exactly when the lowercased query holds an
\* English follow-up phrase as a substring, or the query as given holds an
\* Arabic follow-up phrase, or the trimmed query has fewer than 15 characters
\* and the query has at most 3 whitespace-separated words; it is false in
\* every other case, and true for the empty query.
C20_IsFollowUp ==
  call.op = "is_follow_up" =>
    LET q == call.query
        inked == {i \in 1..Len(q) : ~IsSpace(q[i])}
        first == CHOOSE i \in inked : \A j \in inked : i <= j
        last == CHOOSE i \in inked : \A j \in inked : j <= i
        trimmed == IF inked = {} THEN 0 ELSE last - first + 1
        words == Cardinality({i \in inked : i = 1 \/ IsSpace(q[i - 1])})
        en == \E i \in 1..Len(follow_up_en) : Contains(Lower(q), follow_up_en[i])
        ar == \E i \in 1..Len(follow_up_ar) : Contains(q, follow_up_ar[i])
    IN  /\ call.result \in BOOLEAN
        /\ call.result <=> (en \/ ar \/ (trimmed < 15 /\ words <= 3))
        /\ q = <<>> => call.result

\* a query of three words, 14 characters from the first to the last, with a
\* space before and after, is a follow-up
C20_Witness ==
  /\ call.op = "is_follow_up" /\ call.result
  /\ Len(call.query) = 16 /\ call.query[1] = 32 /\ call.query[16] = 32
  /\ \A i \in 2..11 : call.query[i] = 113
  /\ call.query[12] = 32 /\ call.query[14] = 32

(***************************************************************************)
(* Initialization and the API before the engine is ready                   *)
(***************************************************************************)

\* the four artifacts and the helper objects that TadqeeqRAG.initialize loads
AllLoaded == {"documents", "bm25", "embeddings", "chromadb", "helpers"}

\* C21: a stage of initialize that fails records the initialization error and
\* ends initialize: no later stage runs, nothing more is loaded and the engine
\* never becomes ready; the status is 'ready' and _initialized is true only
\* when the four artifacts and the helper objects are loaded; and a query is
\* sent only to a fully loaded engine.
C21_InitAbortsOnFailure ==
  /\ [](/\ initpc = "failed" =>
             /\ init_error # "None" /\ ~initialized /\ ~ready
             /\ get_init_status = "error"
        /\ init_error # "None" => initpc = "failed"
        /\ initialized => loaded = AllLoaded
        /\ get_init_status = "ready" => loaded = AllLoaded
        /\ ready => get_init_status = "ready"
        /\ \A p \in Procs :
             pc[p] # "idle" => initialized /\ loaded = AllLoaded)
  /\ [][initpc = "failed" =>
          /\ initpc' = "failed" /\ loaded' = loaded
          /\ documents' = documents /\ collection' = collection
          /\ ~initialized' /\ ~ready']_vars

\* loading the vector collection failed after the documents, the lexical
\* index and the embedding model were loaded
C21_Witness ==
  /\ initpc = "failed" /\ init_error = "init_error"
  /\ loaded = {"documents", "bm25", "embeddings"}

\* C27: an API method that needs the engine, called while initialization has
\* not completed successfully (not started, running, or failed), returns
\* {'error': 'System not initialized'} instead of raising, and changes
\* nothing. Stated of API.new_chat, the method the window can call before it
\* is ready.
C27_ErrorUntilInitialized ==
  (call.op = "new_chat" /\ ~call.initialized) =>
    /\ ~call.raised
    /\ call.result = [error |-> NOT_INITIALIZED]

\* C28: the initialization is started at most once, whatever the number and
\* the interleaving of the calls of API.initialize and
\* API.start_initialization: at most one background thread is created (so
\* TadqeeqRAG.initialize runs at most once), at most one call returns
\* 'started', and the other calls of start_initialization return
\* 'already_started'.
C28_StartedAtMostOnce ==
  /\ init_threads <= 1
  /\ \A p, r \in Procs :
       (/\ pc[p] = "returned" /\ frame[p].out.result = [status |-> "started"]
        /\ pc[r] = "returned" /\ frame[r].out.result = [status |-> "started"])
         => p = r

(***************************************************************************)
(* The chat logs                                                           *)
(***************************************************************************)

\* C26: every appended turn is written to the log of the active session:
\* when add_message has completed, the stored log of the active session
\* exists and holds exactly the in-memory turn list, whose earlier turns are
\* the turns it held before, in the same order.
C26_AppendedTurnsStored ==
  call.op = "add_message" =>
    /\ current_messages = Append(call.before.current_messages, call.result)
    /\ current_chat_id # NoChat
    /\ files[current_chat_id] =
         [exists |-> TRUE, messages |-> current_messages]

\* C29: delete_chat(id) removes the stored log of id and returns True, and
\* empties the active session when id is the active one; delete_chat and
\* load_chat of an id without a stored log change nothing and return False
\* and []; every other log and, unless it was deleted, the active session are
\* as before, so that load_chat(id) after delete_chat(id) returns [].
C29_DeleteAndLoadMissing ==
  LET c == call.chat_id
      before == call.before
      session_unchanged ==
        /\ current_chat_id = before.current_chat_id
        /\ current_messages = before.current_messages
  IN  /\ call.op = "delete_chat" =>
           /\ ~files[c].exists
           /\ load_chat_result(c) = <<>>
           /\ \A d \in AllChats \ {c} : files[d] = before.files[d]
           /\ call.result = before.files[c].exists
           /\ IF before.files[c].exists /\ before.current_chat_id = c
              THEN current_chat_id = NoChat /\ current_messages = <<>>
              ELSE session_unchanged
           /\ ~before.files[c].exists => files = before.files
      /\ (call.op = "load_chat" /\ ~before.files[c].exists) =>
           /\ call.result = <<>>
           /\ files = before.files
           /\ session_unchanged

\* the active session, which holds turns, has been deleted
C29_Witness ==
  /\ call.op = "delete_chat" /\ call.result = TRUE
  /\ call.before.current_chat_id = call.chat_id
  /\ call.before.current_messages # <<>>
  /\ current_chat_id = NoChat

(***************************************************************************)
(* More on the fusion                                                      *)
(***************************************************************************)

\* C24: handing the two lists to the fusion in the other order leaves the
\* fused score of every key as it is, and when no two keys have equal fused
\* scores the documents returned (named by their keys) and their order are
\* the same.
C24_FusionSymmetric ==
  call.op = "fuse" =>
    LET doc_scores == call.doc_scores
        swapped == rrf_scores(call.sem_res, call.bm25_res)
        final_swapped == rrf_fuse(call.sem_res, call.bm25_res, call.n_results)
        no_ties == \A e, f \in 1..Len(doc_scores) :
                     e # f => ~FracEQ(doc_scores[e].rrf, doc_scores[f].rrf)
    IN  /\ {swapped[e].key : e \in 1..Len(swapped)}
             = {doc_scores[e].key : e \in 1..Len(doc_scores)}
        /\ \A e \in 1..Len(doc_scores), f \in 1..Len(swapped) :
             doc_scores[e].key = swapped[f].key
               => FracEQ(doc_scores[e].rrf, swapped[f].rrf)
        /\ no_ties =>
             [i \in 1..Len(final_swapped) |-> FuseKey(final_swapped[i])]
               = [i \in 1..Len(call.final) |-> FuseKey(call.final[i])]

\* two different lists with a document in both, three keys with three
\* different fused scores, and at least two documents returned
C24_Witness ==
  /\ call.op = "fuse"
  /\ Len(call.bm25_res) = 2 /\ Len(call.sem_res) = 2
  /\ FuseKey(call.bm25_res[1].doc) = FuseKey(call.sem_res[2].doc)
  /\ FuseKey(call.bm25_res[2].doc) # FuseKey(call.sem_res[1].doc)
  /\ Len(call.doc_scores) = 3
  /\ \A e, f \in 1..3 :
       e # f => ~FracEQ(call.doc_scores[e].rrf, call.doc_scores[f].rrf)
  /\ Len(call.final) >= 2

\* C25: with k = 60 and lists of at most 15 candidates without a repeated
\* key, a document that is in both lists has a strictly higher fused score
\* than a document that is in one list only, and stands before every such
\* document in the returned list; a document of both lists is left out of
\* the returned list only when no document of one list is in it.
C25_BothListsRankFirst ==
  (/\ call.op = "fuse"
   /\ Len(call.bm25_res) <= 15 /\ Len(call.sem_res) <= 15) =>
    LET in_bm25 == {FuseKey(call.bm25_res[i].doc) : i \in 1..Len(call.bm25_res)}
        in_sem == {FuseKey(call.sem_res[i].doc) : i \in 1..Len(call.sem_res)}
        both == in_bm25 \cap in_sem
        single == (in_bm25 \cup in_sem) \ both
        returned == {FuseKey(call.final[p]) : p \in 1..Len(call.final)}
    IN  /\ \A e, f \in 1..Len(call.doc_scores) :
             (call.doc_scores[e].key \in both /\ call.doc_scores[f].key \in single)
               => call.doc_scores[e].rrf.num * call.doc_scores[f].rrf.den
                    > call.doc_scores[f].rrf.num * call.doc_scores[e].rrf.den
        /\ \A p, q \in 1..Len(call.final) :
             (FuseKey(call.final[q]) \in both /\ FuseKey(call.final[p]) \in single)
               => q < p
        /\ (both \ returned # {}) => (single \cap returned = {})

\* the document of both lists is the last of 15 in each, against documents
\* that are first in one list; it is returned first
C25_Witness ==
  /\ call.op = "fuse"
  /\ Len(call.bm25_res) = 15 /\ Len(call.sem_res) = 15
  /\ FuseKey(call.bm25_res[15].doc) = FuseKey(call.sem_res[15].doc)
  /\ Len(call.doc_scores) = 29
  /\ Len(call.final) = 29
  /\ FuseKey(call.final[1]) = FuseKey(call.bm25_res[15].doc)

(***************************************************************************)
(* hybrid_search and the sources of an answer                              *)
(***************************************************************************)

\* C23: hybrid_search returns the regulator and the language detected from
\* the query it was given; every document it returns is a document of the
\* corpus in the language that was searched, which is English for an English
\* query and also for an Arabic query, and belongs to the detected regulator
\* when that is SAMA or CMA; it returns at most n_results documents.
C23_HybridSearchFilters ==
  (call.op = "hybrid_search" /\ ~call.raised) =>
    /\ call.regulator = detect_regulator(call.query)
    /\ call.user_language = detect_language(call.query)
    /\ Len(call.final) <= call.n_results
    /\ \A i \in 1..Len(call.final) :
         /\ \E j \in 1..Len(call.docs) :
              FuseKey(call.docs[j]) = FuseKey(call.final[i])
         /\ call.final[i].language = "en"
         /\ call.regulator \in {"SAMA", "CMA"}
              => call.final[i].regulator = call.regulator

\* an Arabic query that names SAMA, on a corpus with the English and the
\* Arabic text of a SAMA article: the English one is returned
C23_Witness ==
  /\ call.op = "hybrid_search" /\ ~call.raised
  /\ call.user_language = "ar" /\ call.regulator = "SAMA"
  /\ \E j \in 1..Len(call.docs) : call.docs[j].language = "ar"
  /\ Len(call.final) = 1

\* C30: the source list has one {article, document} entry for every article
\* label among the retrieved documents and no two entries with the same
\* label; the entry of a label is taken from the first retrieved document
\* that has it, and the entries are in the order of those first documents;
\* the list is no longer than the list of documents, which has at most three.
C30_SourcesByArticle ==
  call.op = "sources" =>
    LET docs == call.docs
        sources == call.sources
        first(a) == CHOOSE k \in 1..Len(docs) :
                      /\ docs[k].article = a
                      /\ \A m \in 1..(k - 1) : docs[m].article # a
    IN  /\ Len(sources) <= Len(docs) /\ Len(docs) <= 3
        /\ {sources[i].article : i \in 1..Len(sources)}
             = {docs[k].article : k \in 1..Len(docs)}
        /\ \A i, j \in 1..Len(sources) :
             i # j => sources[i].article # sources[j].article
        /\ \A i \in 1..Len(sources) :
             sources[i] = [article |-> sources[i].article,
                           document |-> docs[first(sources[i].article)].document]
        /\ \A i, j \in 1..Len(sources) :
             i < j => first(sources[i].article) < first(sources[j].article)

\* 'Article 1' of two source documents and 'Article 2' were retrieved: the
\* two 'Article 1' give one entry, named after the document retrieved first
C30_Witness ==
  /\ call.op = "sources"
  /\ Len(call.docs) = 3
  /\ call.docs[1].article = call.docs[3].article
  /\ call.docs[1].document # call.docs[3].document
  /\ Len(call.sources) = 2
  /\ call.sources[1].document = call.docs[1].document

(***************************************************************************)
(* The engine after initialization                                         *)
(***************************************************************************)

\* C22: once the engine is initialized no step changes the document list,
\* the vector index or the set of loaded artifacts (the lexical index among
\* them), whatever sequence of query, new_chat, load_chat, delete_chat,
\* upload_document, clear_document, run_compliance_check and generate_brief
\* is called; and a step of a query changes nothing of the engine but the
\* turn list, to which it appends, and the stored log of the active session.
C22_IndexesImmutable ==
  [][/\ initialized =>
          /\ documents' = documents /\ collection' = collection
          /\ loaded' = loaded /\ initialized'
     /\ \A p \in Procs :
          (pc[p] \in {"query", "generate", "respond"} /\ pc'[p] # pc[p]) =>
            /\ rag' = rag /\ init_error' = init_error
            /\ has_document' = has_document /\ reports' = reports
            /\ current_chat_id' = current_chat_id /\ next_id' = next_id
            /\ \/ current_messages' = current_messages /\ files' = files
               \/ /\ Len(current_messages') = Len(current_messages) + 1
                  /\ FirstN(current_messages', Len(current_messages))
                       = current_messages
                  /\ \A c \in AllChats \ {current_chat_id} :
                       files'[c] = files[c]]_vars

\* a document was uploaded and a brief generated, then a query was answered,
\* and the corpus and the collection are the loaded ones
C22_Witness ==
  /\ reports = {"brief"} /\ has_document
  /\ pc[1] = "returned" /\ frame[1].assistant_turns = 1
  /\ documents = SysDocuments /\ collection = SysCollection
  /\ loaded = AllLoaded

====
